---------------------------- MODULE Spec2Model ----------------------------
(***************************************************************************)
(* KeyLeaks: secret detection and advisory engine.                         *)
(*                                                                         *)
(* Four specifications share this module:                                  *)
(*   SpecAdvice  the Advisory Generator (geminiService.ts): one call of    *)
(*               getSecurityAdvice, the https request it issues and the    *)
(*               events of that request;                                   *)
(*   Spec        the Scan Scheduler (extension.ts, KeyLeaksExtension):     *)
(*               edit / save / open events, the debounce timer, the        *)
(*               workspace batch scan and the per-resource result map;     *)
(*   SpecCalls   single calls of the pure functions scanForSecrets,        *)
(*               redactSecret, getDefaultAdvice and of the prompt builder  *)
(*               on inputs drawn from bounded sets;                        *)
(*   SpecPanel   the advice panel (webviewPanel.ts, webview/App.tsx): the  *)
(*               showAdvice command, createAdvicePanel, the messages       *)
(*               posted to the webview and the App that receives them.     *)
(*                                                                         *)
(* Strings the code inspects character by character are tuples of          *)
(* one-character strings; strings the code only builds from a literal and  *)
(* one interpolated value are records [t |-> literal, a |-> value].        *)
(***************************************************************************)
EXTENDS Integers, Sequences, FiniteSets, TLC

VARIABLES
    \* ---- Advisory Generator (geminiService.ts) ----
    pc,             \* position of getSecurityAdvice: "idle", "awaiting", "done"
    secretMatch,    \* argument secretMatch of the call  (<<>> before the call)
    apiKey,         \* argument apiKey of the call: <<>> = undefined, <<s>> = string s
    request,        \* the https request: <<>> or <<[payload, destroyed, errorDue]>>
    promise,        \* makeGeminiRequest's promise: "none", "pending", "resolved", "rejected"
    settleCount,    \* number of resolve/reject calls that took effect
    res,            \* the response whose 'end' was handled: <<>> or <<[statusCode, data]>>
    failure,        \* the rejection reason: "" or the Error message class
    advice,         \* value returned by getSecurityAdvice: <<>> or <<SecurityAdvice>>
    warnings,       \* vscode.window.showWarningMessage calls of the call
    requestCount    \* https.request calls issued

adviceVars == <<pc, secretMatch, apiKey, request, promise, settleCount, res,
                failure, advice, warnings, requestCount>>

VARIABLES
    \* ---- Scan Scheduler (extension.ts, class KeyLeaksExtension) ----
    documents,        \* the editor's text documents: uri -> text
    scannedFiles,     \* the Map scannedFiles: its entries in insertion order
    diagnostics,      \* the DiagnosticCollection: uri -> diagnostics
    changeDelayTimer, \* <<>> = undefined, or <<[document, due, pending]>>
    now,              \* Date.now(), in milliseconds since activation
    config,           \* the keyleaks settings
    disposed,         \* dispose() has run
    runs,             \* the scanWorkspace calls in progress
    window,           \* the last message, status bar message and bell
    events,           \* editor events and commands handled so far
    \* ---- what has happened, kept for the properties ----
    lastTrigger,      \* the last event, timer callback or batch step
    lastEdit,         \* uri -> the last edit event of the uri
    lastFire,         \* uri -> when the timer callback last ran for the uri
    burst,            \* the current run of edit events on one uri
    lastScan          \* uri -> what the last scan of the uri produced

schedVars == <<documents, scannedFiles, diagnostics, changeDelayTimer, now, config,
               disposed, runs, window, events,
               lastTrigger, lastEdit, lastFire, burst, lastScan>>

VARIABLES
    \* ---- one call of a pure function of the detector or the advisor ----
    pureCall,         \* <<>> = no call, or <<[fn, arg]>>
    result            \* <<>> = not returned, or <<the value returned>>

callVars == <<pureCall, result>>

VARIABLES
    \* ---- Advice panel (webviewPanel.ts, webview/App.tsx) ----
    adviceCalls,      \* showSecurityAdvice calls awaiting getSecurityAdvice
    currentPanel,     \* <<>> = undefined, or <<[initialData, loaded]>>
    webviewMessages,  \* data posted to the webview and not yet dispatched
    appData,          \* App's state.data: <<>> = no App or null, or <<data>>
    panelWarning,     \* showWarningMessage was called by the showAdvice command
    \* ---- what has happened, kept for the properties ----
    adviceRequested,  \* user requests made so far
    completed,        \* the requests whose getSecurityAdvice has returned
    received,         \* the data App has taken in, in order, with its request
    overlapping       \* the requests that were in flight together with a
                      \* request for another match

panelVars == <<adviceCalls, currentPanel, webviewMessages, appData, panelWarning,
               adviceRequested, completed, received, overlapping>>

vars == <<adviceVars, schedVars, callVars, panelVars>>

\* No pure-function call is in progress
NoCall == pureCall = <<>> /\ result = <<>>

\* let currentPanel = undefined; no advice has been asked for
NoPanel ==
    /\ adviceCalls = {}
    /\ currentPanel = <<>>
    /\ webviewMessages = <<>>
    /\ appData = <<>>
    /\ panelWarning = FALSE
    /\ adviceRequested = 0
    /\ completed = {}
    /\ overlapping = {}
    /\ received = <<>>

--------------------------------------------------------------------------
(* Generic helpers                                                         *)

Min(a, b) == IF a < b THEN a ELSE b
Max(a, b) == IF a > b THEN a ELSE b

\* "*".repeat(n)
Repeat(c, n) == [i \in 1..n |-> c]

\* A string built from a literal with one interpolated value
Tpl(t, a) == [t |-> t, a |-> a]
Lit(t) == [t |-> t, a |-> <<>>]

\* String.prototype.includes on character tuples
Includes(s, sub) ==
    \E i \in 0..(Len(s) - Len(sub)) : SubSeq(s, i + 1, i + Len(sub)) = sub

UpperCase == <<"A","B","C","D","E","F","G","H","I","J","K","L","M",
               "N","O","P","Q","R","S","T","U","V","W","X","Y","Z">>
LowerCase == <<"a","b","c","d","e","f","g","h","i","j","k","l","m",
               "n","o","p","q","r","s","t","u","v","w","x","y","z">>

ToLowerChar(c) ==
    IF \E i \in 1..26 : UpperCase[i] = c
    THEN LowerCase[CHOOSE i \in 1..26 : UpperCase[i] = c]
    ELSE c

\* String.prototype.toLowerCase
ToLowerCase(s) == [i \in 1..Len(s) |-> ToLowerChar(s[i])]

IsWhitespace(c) == c \in {" ", "\t", "\n", "\r"}

RECURSIVE TrimStart(_)
TrimStart(s) ==
    IF s # <<>> /\ IsWhitespace(Head(s)) THEN TrimStart(Tail(s)) ELSE s

RECURSIVE TrimEnd(_)
TrimEnd(s) ==
    IF s # <<>> /\ IsWhitespace(s[Len(s)])
    THEN TrimEnd(SubSeq(s, 1, Len(s) - 1)) ELSE s

\* String.prototype.trim
Trim(s) == TrimEnd(TrimStart(s))

--------------------------------------------------------------------------
(* Redactor (secretDetector.ts)                                            *)

RedactShortMax == 8
RedactKeep == 4
RedactMaskMax == 20

\* A redactor that masks whole only the strings shorter than 8
redactSecretBelowShortMax(secret) ==
    IF Len(secret) < RedactShortMax
    THEN Repeat("*", Len(secret))
    ELSE SubSeq(secret, 1, RedactKeep)
         \o Repeat("*", Min(Len(secret) - RedactShortMax, RedactMaskMax))
         \o SubSeq(secret, Len(secret) - RedactKeep + 1, Len(secret))

\* A redactor whose mask grows with the string
redactSecretUncapped(secret) ==
    IF Len(secret) <= RedactShortMax
    THEN Repeat("*", Len(secret))
    ELSE SubSeq(secret, 1, RedactKeep)
         \o Repeat("*", Len(secret) - RedactShortMax)
         \o SubSeq(secret, Len(secret) - RedactKeep + 1, Len(secret))

\* redactSecret(secret)
redactSecret(secret) ==
    IF Len(secret) <= RedactShortMax
    THEN Repeat("*", Len(secret))
    ELSE SubSeq(secret, 1, RedactKeep)
         \o Repeat("*", Min(Len(secret) - RedactShortMax, RedactMaskMax))
         \o SubSeq(secret, Len(secret) - RedactKeep + 1, Len(secret))

--------------------------------------------------------------------------
(* Advisory Generator: data                                                *)

Severities == {"high", "medium", "low"}

\* Pattern names used as match types (SECRET_PATTERNS[].name), as characters
StripeApiKey == <<"S","t","r","i","p","e"," ","A","P","I"," ","K","e","y">>
JwtToken == <<"J","W","T"," ","T","o","k","e","n">>
SshPrivateKey == <<"S","S","H"," ","P","r","i","v","a","t","e"," ","K","e","y">>
AwsSecretKey == <<"A","W","S"," ","S","e","c","r","e","t"," ","K","e","y">>

\* Secret values of the sample matches
Value24 == <<"s","k","_","l","i","v","e","_","1","2","3","4","5","6","7","8",
             "9","0","a","b","c","d","e","f">>
Value6 == <<"s","e","c","r","e","t">>

\* SecretMatch (secretDetector.ts): the matches handed to getSecurityAdvice
Match(type, value, line, column, severity) ==
    [type |-> type, value |-> value, line |-> line, column |-> column,
     context |-> value, severity |-> severity]

SampleMatches ==
    { Match(StripeApiKey, Value24, 1, 18, "high"),
      Match(JwtToken, Value24, 2, 1, "medium"),
      Match(SshPrivateKey, Value6, 1, 1, "high"),
      Match(AwsSecretKey, Value24, 3, 5, "high"),
      Match(AwsSecretKey, Value6, 3, 5, "low") }

\* apiKey arguments: undefined, "", " ", "  ", "k", " k", "k ", ...
MaxKeyLen == 2
RECURSIVE SeqsUpTo(_, _)
SeqsUpTo(S, n) ==
    IF n = 0 THEN {<<>>}
    ELSE LET shorter == SeqsUpTo(S, n - 1)
         IN  shorter \cup {Append(s, c) : s \in {t \in shorter : Len(t) = n - 1}, c \in S}

ApiKeys == {<<>>} \cup {<<k>> : k \in SeqsUpTo({" ", "k"}, MaxKeyLen)}

\* The words of a response text.  "{" "}" "\n" " " "-" are the characters the
\* code looks for; "w" is any other run of text; the others are the members
\* "key": value of a JSON object, with their commas.
FieldTokens == {"u:critical", "u:low", "r:[]", "r:[a]", "r:x", "t:T", "s:[s]"}
ResponseTokens == {"{", "}", "\n", " ", "-", "w"} \cup FieldTokens

MaxResponseLen == 3
ResponseTexts == SeqsUpTo(ResponseTokens, MaxResponseLen)

\* Response bodies: data that JSON.parse rejects, JSON without
\* candidates[0].content.parts[0].text, and JSON with that text
ResponseBodies ==
    {[json |-> FALSE, text |-> <<>>], [json |-> TRUE, text |-> <<>>]}
    \cup {[json |-> TRUE, text |-> <<t>>] : t \in ResponseTexts}

HttpOk == 200
StatusCodes == {200, 401, 500}

--------------------------------------------------------------------------
(* Advisory Generator: pure functions (geminiService.ts)                   *)

\* getDefaultAdvice: the revocation steps chosen from the match type
ApiKeySteps ==
    << Lit("Log into the service provider dashboard"),
       Lit("Navigate to API Keys / Credentials section"),
       Lit("Revoke or delete the exposed key"),
       Lit("Generate a new key with appropriate permissions"),
       Lit("Update your application configuration with the new key") >>
TokenSteps ==
    << Lit("Log into the service provider dashboard"),
       Lit("Revoke the exposed token"),
       Lit("Generate a new token"),
       Lit("Update your application configuration") >>
PrivateKeySteps ==
    << Lit("Generate a new key pair"),
       Lit("Update the public key in authorized systems"),
       Lit("Remove the old key from all systems"),
       Lit("Update your application configuration") >>

\* The same choice with the Token test first
RevocationStepsTokenFirst(type) ==
    IF Includes(type, <<"T","o","k","e","n">>) THEN TokenSteps
    ELSE IF Includes(type, <<"A","P","I"," ","K","e","y">>) THEN ApiKeySteps
    ELSE IF Includes(type, <<"P","r","i","v","a","t","e"," ","K","e","y">>)
         THEN PrivateKeySteps
    ELSE <<>>

RevocationStepsFor(type) ==
    IF Includes(type, <<"A","P","I"," ","K","e","y">>) THEN ApiKeySteps
    ELSE IF Includes(type, <<"T","o","k","e","n">>) THEN TokenSteps
    ELSE IF Includes(type, <<"P","r","i","v","a","t","e"," ","K","e","y">>)
         THEN PrivateKeySteps
    ELSE <<>>

BaseRecommendations(m) ==
    << Tpl("Rotate the exposed {type} immediately", m.type),
       Lit("Review your Git history and remove the secret from commit history"),
       Lit("Update the secret in all environments (development, staging, production)"),
       Lit("Enable secret scanning in your CI/CD pipeline"),
       Lit("Review who had access to the exposed credential and assess impact") >>

\* A fallback whose urgency is critical for severity medium as well
getDefaultAdviceMediumCritical(m) ==
    LET revocationSteps == RevocationStepsFor(m.type)
    IN  [ title |-> Tpl("Security Alert: {type} Detected", m.type),
          description |-> Tpl("A {type} has been detected in your code. ...",
                              ToLowerCase(m.type)),
          recommendations |-> BaseRecommendations(m),
          urgency |-> IF m.severity \in {"high", "medium"} THEN "critical" ELSE "high",
          revocationSteps |-> IF Len(revocationSteps) > 0
                              THEN <<revocationSteps>> ELSE <<>> ]

\* getDefaultAdvice(secretMatch)
getDefaultAdvice(m) ==
    LET revocationSteps == RevocationStepsFor(m.type)
    IN  [ title |-> Tpl("Security Alert: {type} Detected", m.type),
          description |-> Tpl("A {type} has been detected in your code. ...",
                              ToLowerCase(m.type)),
          recommendations |-> BaseRecommendations(m),
          urgency |-> IF m.severity = "high" THEN "critical" ELSE "high",
          revocationSteps |-> IF Len(revocationSteps) > 0
                              THEN <<revocationSteps>> ELSE <<>> ]

\* response.split('\n')
RECURSIVE SplitLines(_)
SplitLines(s) ==
    IF \E i \in 1..Len(s) : s[i] = "\n"
    THEN LET i == CHOOSE k \in 1..Len(s) :
                      s[k] = "\n" /\ \A j \in 1..(k - 1) : s[j] # "\n"
         IN  <<SubSeq(s, 1, i - 1)>> \o SplitLines(SubSeq(s, i + 1, Len(s)))
    ELSE <<s>>

\* l.replace(/^[-*...]\s*/, ''): the characters of the class as the file has them
BulletChars == {"-", "*", "U+00E2", "U+20AC", "U+00A2"}

RECURSIVE SkipSpaces(_)
SkipSpaces(l) ==
    IF l # <<>> /\ IsWhitespace(Head(l)) THEN SkipSpaces(Tail(l)) ELSE l

StripBullet(l) ==
    IF l # <<>> /\ Head(l) \in BulletChars THEN SkipSpaces(Tail(l)) ELSE l

DescriptionMax == 300
MaxRecommendations == 5

\* parseUnstructuredResponse(response, secretMatch)
parseUnstructuredResponse(response, m) ==
    LET lines == SelectSeq(SplitLines(response), LAMBDA l : Trim(l) # <<>>)
        first == SubSeq(lines, 1, Min(MaxRecommendations, Len(lines)))
    IN  [ title |-> Tpl("Security Issue: {type}", m.type),
          description |->
              IF response # <<>>
              THEN Tpl("{text}", SubSeq(response, 1, Min(DescriptionMax, Len(response))))
              ELSE Lit("A secret was detected in your code."),
          recommendations |-> [i \in 1..Len(first) |-> Tpl("{text}", StripBullet(first[i]))],
          urgency |-> IF m.severity = "high" THEN "high" ELSE "medium",
          revocationSteps |-> <<>> ]

\* response.match(/\{[\s\S]*\}/): <<>> or <<the text from the first "{" to the last "}">>
JsonMatch(response) ==
    LET opens == {i \in 1..Len(response) : response[i] = "{"}
        first == CHOOSE i \in opens : \A j \in opens : i <= j
        closes == {i \in 1..Len(response) : response[i] = "}" /\ i > first}
        last == CHOOSE i \in closes : \A j \in closes : j <= i
    IN  IF opens = {} THEN <<>>
        ELSE IF closes = {} THEN <<>>
        ELSE <<SubSeq(response, first, last)>>

\* The value of a member "key": value
FieldKey(tok) ==
    CASE tok \in {"u:critical", "u:low"} -> "urgency"
      [] tok \in {"r:[]", "r:[a]", "r:x"} -> "recommendations"
      [] tok = "t:T" -> "title"
      [] tok = "s:[s]" -> "revocationSteps"

FieldValue(tok) ==
    CASE tok = "u:critical" -> [isArray |-> FALSE, str |-> "critical", items |-> <<>>]
      [] tok = "u:low" -> [isArray |-> FALSE, str |-> "low", items |-> <<>>]
      [] tok = "r:[]" -> [isArray |-> TRUE, str |-> "", items |-> <<>>]
      [] tok = "r:[a]" -> [isArray |-> TRUE, str |-> "", items |-> <<Lit("a")>>]
      [] tok = "r:x" -> [isArray |-> FALSE, str |-> "x", items |-> <<>>]
      [] tok = "t:T" -> [isArray |-> FALSE, str |-> "T", items |-> <<>>]
      [] tok = "s:[s]" -> [isArray |-> TRUE, str |-> "", items |-> <<Lit("s")>>]

JsonKeys == {"title", "description", "recommendations", "urgency", "revocationSteps"}

\* JSON.parse(text) of an object text "{ ... }": ok = FALSE when it throws;
\* obj[key] is <<>> (undefined) or <<value>>, a later member replacing an earlier one
JsonParse(text) ==
    LET inner == SubSeq(text, 2, Len(text) - 1)
        members == SelectSeq(inner, LAMBDA t : ~IsWhitespace(t))
        ok == \A i \in 1..Len(members) : members[i] \in FieldTokens
        at(key) == {i \in 1..Len(members) : FieldKey(members[i]) = key}
        lastAt(key) == CHOOSE i \in at(key) : \A j \in at(key) : j <= i
    IN  [ ok |-> ok,
          obj |-> IF ok
                  THEN [key \in JsonKeys |->
                           IF at(key) = {} THEN <<>>
                           ELSE <<FieldValue(members[lastAt(key)])>>]
                  ELSE [key \in JsonKeys |-> <<>>] ]

\* JavaScript truthiness of a parsed member: undefined and "" are falsy
Truthy(opt) == opt # <<>> /\ (opt[1].isArray \/ opt[1].str # "")

\* The object literal returned at geminiService.ts:135-143
StructuredAdvice(parsed, m) ==
    [ title |-> IF Truthy(parsed.title)
                THEN Lit(parsed.title[1].str)
                ELSE Tpl("Security Issue: {type}", m.type),
      description |-> IF Truthy(parsed.description)
                      THEN Lit(parsed.description[1].str)
                      ELSE Lit("A secret was detected in your code."),
      recommendations |->
          IF parsed.recommendations # <<>> /\ parsed.recommendations[1].isArray
          THEN parsed.recommendations[1].items
          ELSE <<Lit("Rotate the exposed credential immediately")>>,
      \* parsed.urgency || secretMatch.severity === 'high' ? 'high' : 'medium'
      \* parses as (parsed.urgency || severity === 'high') ? 'high' : 'medium'
      urgency |-> IF Truthy(parsed.urgency) \/ m.severity = "high"
                  THEN "high" ELSE "medium",
      revocationSteps |-> IF Truthy(parsed.revocationSteps)
                          THEN <<parsed.revocationSteps[1].items>> ELSE <<>> ]

\* getSecurityAdvice after the await resolved with `response` (lines 130-151)
AdviceFromResponse(response, m) ==
    LET jsonMatch == JsonMatch(response)
        parsed == JsonParse(jsonMatch[1])
    IN  IF jsonMatch # <<>> /\ parsed.ok
        THEN StructuredAdvice(parsed.obj, m)
        ELSE parseUnstructuredResponse(response, m)

\* A prompt that embeds the value as found
BuildPromptRaw(m) ==
    [ type |-> m.type, redacted |-> m.value,
      severity |-> m.severity, line |-> m.line ]

\* The prompt and payload of the request (lines 104-126 and 29-35)
BuildPrompt(m) ==
    [ type |-> m.type, redacted |-> redactSecret(m.value),
      severity |-> m.severity, line |-> m.line ]

RequestPayload(prompt) == [contents |-> <<[parts |-> <<[text |-> prompt]>>]>>]

\* A blank test that forgets apiKey.trim()
IsBlankKeyNoTrim(key) == key = <<>> \/ key[1] = <<>>

\* !apiKey || apiKey.trim() === ''
IsBlankKey(key) == key = <<>> \/ key[1] = <<>> \/ Trim(key[1]) = <<>>

\* An 'end' handler that resolves with whatever text it has whenever the
\* status is 200, instead of rejecting a body it cannot use
EndOutcomeLenient(statusCode, data) ==
    IF statusCode = HttpOk
    THEN [resolve |-> TRUE,
          text |-> IF data.json /\ data.text # <<>> THEN data.text[1] ELSE <<>>,
          error |-> ""]
    ELSE [resolve |-> FALSE, text |-> <<>>, error |-> "API error"]

\* res.on('end'): what the handler does with the promise (lines 55-71)
EndOutcome(statusCode, data) ==
    IF statusCode = HttpOk
    THEN IF ~data.json
         THEN [resolve |-> FALSE, text |-> <<>>, error |-> "Failed to parse response"]
         ELSE IF data.text # <<>> /\ data.text[1] # <<>>
         THEN [resolve |-> TRUE, text |-> data.text[1], error |-> ""]
         ELSE [resolve |-> FALSE, text |-> <<>>,
               error |-> "Invalid response format from Gemini API"]
    ELSE [resolve |-> FALSE, text |-> <<>>, error |-> "API error"]

--------------------------------------------------------------------------
(* Advisory Generator: getSecurityAdvice as a process                      *)

AdviceInit ==
    /\ pc = "idle"
    /\ secretMatch = <<>>
    /\ apiKey = <<>>
    /\ request = <<>>
    /\ promise = "none"
    /\ settleCount = 0
    /\ res = <<>>
    /\ failure = ""
    /\ advice = <<>>
    /\ warnings = <<>>
    /\ requestCount = 0

\* A catch block that logs the error and lets it reach the caller
CatchHandlerRethrow(m, message) ==
    [ pc |-> "threw", advice |-> <<>>, warnings |-> <<>> ]

\* The catch block of getSecurityAdvice (lines 152-158)
CatchHandler(m, message) ==
    [ pc |-> "done",
      advice |-> <<getDefaultAdvice(m)>>,
      warnings |-> <<Tpl("Failed to get AI advice: {message}. Showing default advice.",
                         message)>> ]

\* The try block after the await (lines 128-151)
ThenHandler(m, response) ==
    [ pc |-> "done",
      advice |-> <<AdviceFromResponse(response, m)>>,
      warnings |-> <<>> ]

\* A promise whose every resolve or reject runs the continuation again
SettleEveryTime(outcome) ==
    LET cont == IF outcome.resolve
                THEN ThenHandler(secretMatch[1], outcome.text)
                ELSE CatchHandler(secretMatch[1], outcome.error)
    IN  /\ promise' = IF outcome.resolve THEN "resolved" ELSE "rejected"
        /\ settleCount' = settleCount + 1
        /\ failure' = outcome.error
        /\ pc' = cont.pc
        /\ advice' = cont.advice
        /\ warnings' = warnings \o cont.warnings

\* resolve(text) / reject(error) of makeGeminiRequest's promise, and the
\* continuation of the awaiting getSecurityAdvice.  A promise settles once:
\* a later resolve or reject has no effect.
Settle(outcome) ==
    IF promise = "pending"
    THEN LET cont == IF outcome.resolve
                     THEN ThenHandler(secretMatch[1], outcome.text)
                     ELSE CatchHandler(secretMatch[1], outcome.error)
         IN  /\ promise' = IF outcome.resolve THEN "resolved" ELSE "rejected"
             /\ settleCount' = settleCount + 1
             /\ failure' = outcome.error
             /\ pc' = cont.pc
             /\ advice' = cont.advice
             /\ warnings' = warnings \o cont.warnings
    ELSE UNCHANGED <<promise, settleCount, failure, pc, advice, warnings>>

Rejection(message) == [resolve |-> FALSE, text |-> <<>>, error |-> message]

\* getSecurityAdvice(secretMatch, apiKey) up to its return or its await
GetSecurityAdvice(m, key) ==
    /\ pc = "idle"
    /\ secretMatch' = <<m>>
    /\ apiKey' = key
    /\ IF IsBlankKey(key)
       THEN /\ advice' = <<getDefaultAdvice(m)>>
            /\ pc' = "done"
            /\ UNCHANGED <<request, promise, requestCount>>
       ELSE /\ request' = <<[ payload |-> RequestPayload(BuildPrompt(m)),
                              key |-> key[1], state |-> "inflight" ]>>
            /\ promise' = "pending"
            /\ requestCount' = requestCount + 1
            /\ pc' = "awaiting"
            /\ UNCHANGED advice
    /\ UNCHANGED <<settleCount, res, failure, warnings>>

\* res.on('end') of the request
ResEnd(statusCode, data) ==
    /\ request # <<>>
    /\ request[1].state = "inflight"
    /\ request' = <<[request[1] EXCEPT !.state = "ended"]>>
    /\ res' = <<[statusCode |-> statusCode, data |-> data]>>
    /\ Settle(EndOutcome(statusCode, data))
    /\ UNCHANGED <<secretMatch, apiKey, requestCount>>

\* req.on('error'): a connection failure, or the error a destroyed request emits
ReqError ==
    /\ request # <<>>
    /\ request[1].state \in {"inflight", "destroyed"}
    /\ request' = <<[request[1] EXCEPT !.state = "errored"]>>
    /\ Settle(Rejection("Request failed"))
    /\ UNCHANGED <<secretMatch, apiKey, requestCount, res>>
    /\ UNCHANGED <<schedVars, callVars, panelVars>>

\* req.on('timeout'): req.destroy(), then reject
ReqTimeout ==
    /\ request # <<>>
    /\ request[1].state = "inflight"
    /\ request' = <<[request[1] EXCEPT !.state = "destroyed"]>>
    /\ Settle(Rejection("Request timeout"))
    /\ UNCHANGED <<secretMatch, apiKey, requestCount, res>>
    /\ UNCHANGED <<schedVars, callVars, panelVars>>

CallAdvice ==
    /\ pc = "idle"
    /\ \E m \in SampleMatches, key \in ApiKeys : GetSecurityAdvice(m, key)
    /\ UNCHANGED <<schedVars, callVars, panelVars>>

\* The error message of a non-200 status carries the body, which is not parsed
ResponseEnds ==
    /\ request # <<>>
    /\ request[1].state = "inflight"
    /\ \E statusCode \in StatusCodes :
          \E data \in IF statusCode = HttpOk THEN ResponseBodies
                      ELSE {b \in ResponseBodies : b.text = <<>>} :
              ResEnd(statusCode, data)
    /\ UNCHANGED <<schedVars, callVars, panelVars>>

AdviceNext == CallAdvice \/ ResponseEnds \/ ReqError \/ ReqTimeout

--------------------------------------------------------------------------
(* Advisory Generator: claims                                              *)

\* What the call has seen, read back from the state
Returned == pc = "done"
TheMatch == secretMatch[1]
TheAdvice == advice[1]
Got200 == res # <<>> /\ res[1].statusCode = HttpOk
BodyUnusable ==
    Got200 /\ (~res[1].data.json \/ res[1].data.text = <<>>
               \/ res[1].data.text[1] = <<>>)
ResponseText == res[1].data.text[1]
HasStructuredObject ==
    /\ Got200 /\ ~BodyUnusable
    /\ JsonMatch(ResponseText) # <<>>
    /\ JsonParse(JsonMatch(ResponseText)[1]).ok
ParsedObject == JsonParse(JsonMatch(ResponseText)[1]).obj
TransportOrStatusFailures == {"Request failed", "Request timeout", "API error"}

\* C1: getAdvice always returns an advice whose recommendations list is
\* non-empty, whatever the credential and the outcome of the remote call.
C1_RecommendationsNeverEmpty ==
    Returned => advice # <<>> /\ Len(TheAdvice.recommendations) > 0

\* C2: with a well-formed structured object, the returned urgency is the
\* object's urgency field when it is present, and the severity-derived default
\* (high for severity high, medium otherwise) only when it is missing.
C2_UrgencyTakenFromObject ==
    (Returned /\ HasStructuredObject) =>
        TheAdvice.urgency =
            IF ParsedObject.urgency # <<>>
            THEN ParsedObject.urgency[1].str
            ELSE IF TheMatch.severity = "high" THEN "high" ELSE "medium"

\* C3 as stated: a 200 response whose body is malformed or whose text is absent
\* is recovered by Unstructured Extraction, not by the full Fallback Advice.
C3_UnusableBodyGetsUnstructuredExtraction ==
    (Returned /\ BodyUnusable) =>
        /\ TheAdvice # getDefaultAdvice(TheMatch)
        /\ TheAdvice.title = Tpl("Security Issue: {type}", TheMatch.type)

\* C3 as amended: a 200 response whose body is malformed or whose text is
\* absent or empty is a failed call: one warning, and the Fallback Advice.
\* Unstructured Extraction is what a 200 response gets whose text is present
\* but holds no well-formed structured object.
C3_UnusableBodyFallsBack ==
    /\ (Returned /\ BodyUnusable) =>
          /\ advice = <<getDefaultAdvice(TheMatch)>>
          /\ Len(warnings) = 1
          /\ promise = "rejected"
    /\ (Returned /\ Got200 /\ ~BodyUnusable /\ ~HasStructuredObject) =>
          /\ advice = <<parseUnstructuredResponse(ResponseText, TheMatch)>>
          /\ warnings = <<>>

C3_Witness ==
    /\ Returned /\ BodyUnusable /\ res[1].data.json /\ res[1].data.text = <<>>
    /\ advice = <<getDefaultAdvice(TheMatch)>>

\* C4: with a non-blank credential, a transport failure, a timeout or a
\* non-200 status surfaces one warning and returns exactly the Fallback Advice
\* of the match; the call returns normally.
C4_RemoteFailureWarnsAndFallsBack ==
    (promise = "rejected" /\ failure \in TransportOrStatusFailures) =>
        /\ pc = "done"
        /\ advice = <<getDefaultAdvice(TheMatch)>>
        /\ Len(warnings) = 1
        /\ warnings[1].a = failure

C4_Witness ==
    /\ promise = "rejected" /\ failure = "Request timeout"
    /\ request[1].state = "errored"
    /\ advice = <<getDefaultAdvice(TheMatch)>>
    /\ Len(warnings) = 1

\* "absent, empty or whitespace-only", spelled out character by character
AbsentOrBlank(key) ==
    key = <<>> \/ \A i \in 1..Len(key[1]) : IsWhitespace(key[1][i])

\* C5: with an absent, empty or whitespace-only credential the call returns the
\* Fallback Advice at once: no request is issued and no warning is shown.
C5_BlankCredentialFallsBackDirectly ==
    (pc # "idle" /\ AbsentOrBlank(apiKey)) =>
        /\ pc = "done"
        /\ advice = <<getDefaultAdvice(TheMatch)>>
        /\ requestCount = 0 /\ request = <<>> /\ promise = "none"
        /\ warnings = <<>>

C5_Witness ==
    /\ pc = "done" /\ apiKey = <<<<" ", " ">>>>
    /\ advice = <<getDefaultAdvice(TheMatch)>> /\ requestCount = 0

\* C22: a call with a credential issues exactly one remote request, also
\* after a timeout or another failure, and the call resolves exactly once: a
\* connection error on a request the timeout has destroyed changes nothing.
C22_OneRequestOneResolution ==
    /\ requestCount <= 1
    /\ (pc # "idle" /\ ~IsBlankKey(apiKey)) => requestCount = 1
    /\ settleCount <= 1
    /\ Len(warnings) <= 1
    /\ Returned => /\ advice # <<>>
                   /\ ~IsBlankKey(apiKey) => settleCount = 1
    /\ (request # <<>> /\ request[1].state = "errored" /\ failure = "Request timeout")
       => /\ Returned
          /\ TheAdvice = getDefaultAdvice(TheMatch)
          /\ Len(warnings) = 1
          /\ warnings[1].a = "Request timeout"

\* A timeout, then the error event of the destroyed request
C22_Witness ==
    /\ request # <<>>
    /\ request[1].state = "errored"
    /\ failure = "Request timeout"
    /\ requestCount = 1
    /\ settleCount = 1
    /\ Returned

--------------------------------------------------------------------------
(* Regular expressions (the subset of JavaScript RegExp the detector uses) *)

Digits == {"0","1","2","3","4","5","6","7","8","9"}
Letters == {UpperCase[i] : i \in 1..26} \cup {LowerCase[i] : i \in 1..26}
HexLetters == {"a","b","c","d","e","f","A","B","C","D","E","F"}
UpperLetters == {UpperCase[i] : i \in 1..26}
Alnum == Letters \cup Digits
WordChars == Alnum \cup {"_"}
SpaceChars == {" ", "\t", "\n", "\r"}
LineTerminators == {"\n", "\r"}

Unbounded == 0 - 1

\* Pattern nodes: a character class (fset is the class folded to lower case,
\* for the i flag), a literal word, concatenation, alternation, greedy
\* repetition {min,max}, and capture group 1
Cls(S) == [op |-> "cls", neg |-> FALSE, set |-> S, fset |-> {ToLowerChar(x) : x \in S}]
NCls(S) == [op |-> "cls", neg |-> TRUE, set |-> S, fset |-> {ToLowerChar(x) : x \in S}]
Ch(c) == Cls({c})
Cat(parts) == [op |-> "cat", parts |-> parts]
Alt(parts) == [op |-> "alt", parts |-> parts]
Rep(r, min, max) == [op |-> "rep", r |-> r, min |-> min, max |-> max]
Opt(r) == Rep(r, 0, 1)
Star(r) == Rep(r, 0, Unbounded)
Plus(r) == Rep(r, 1, Unbounded)
Grp(r) == [op |-> "grp", r |-> r]
Word(chars) == [op |-> "lit", chars |-> chars]

\* One way of matching: e is the position after the match, cs..ce-1 the
\* characters captured by group 1 (cs = 0: the group did not take part)
MatchEnd(e, cs, ce) == [e |-> e, cs |-> cs, ce |-> ce]

CharMatches(re, c, ignoreCase) ==
    LET member == IF ignoreCase THEN ToLowerChar(c) \in re.fset ELSE c \in re.set
    IN  IF re.neg THEN ~member ELSE member

CharEquals(a, c, ignoreCase) ==
    IF ignoreCase THEN ToLowerChar(a) = ToLowerChar(c) ELSE a = c

\* F applied to the value of e, which is computed once
With(e, F(_)) == CHOOSE r \in {F(x) : x \in {e}} : TRUE

\* The sequences of seqs one after the other
Flatten(seqs) ==
    With(seqs, LAMBDA ss :
      With([m \in 0..Len(ss) |-> Cardinality(UNION {{k} \X (1..Len(ss[k])) : k \in 1..m})],
        LAMBDA upto :
          [n \in 1..upto[Len(ss)] |->
              LET m == CHOOSE m \in 1..Len(ss) : upto[m - 1] < n /\ n <= upto[m]
              IN  ss[m][n - upto[m - 1]]]))

\* The capture of the later part wins, else the capture so far is kept
KeepCapture(x, ys) ==
    With(ys, LAMBDA zs :
        [n \in 1..Len(zs) |->
            IF zs[n].cs > 0 THEN zs[n] ELSE MatchEnd(zs[n].e, x.cs, x.ce)])

\* How many characters of the class re follow one another from position i
ClassRun(re, s, i, ignoreCase) ==
    CHOOSE k \in 0..(Len(s) + 1 - i) :
        /\ \A n \in 0..(k - 1) : CharMatches(re, s[i + n], ignoreCase)
        /\ i + k > Len(s) \/ ~CharMatches(re, s[i + k], ignoreCase)

\* A repeated class: the longest run first, then one character less, ...
MatchClassRep(re, min, max, s, i, ignoreCase) ==
    With(ClassRun(re, s, i, ignoreCase), LAMBDA run :
        LET top == IF max < 0 \/ run < max THEN run ELSE max
        IN  IF top < min THEN <<>>
            ELSE [n \in 1..(top - min + 1) |-> MatchEnd(i + top - n + 1, 0, 0)])

\* MatchAt(re, s, i, ignoreCase): every way re matches s starting at position
\* i, in the order a backtracking matcher tries them (greedy first)
RECURSIVE MatchAt(_, _, _, _)
RECURSIVE MatchCat(_, _, _, _, _)
RECURSIVE MatchRep(_, _, _, _, _, _)

MatchAt(re, s, i, ignoreCase) ==
    CASE re.op = "cls" ->
            IF i <= Len(s) /\ CharMatches(re, s[i], ignoreCase)
            THEN <<MatchEnd(i + 1, 0, 0)>> ELSE <<>>
      [] re.op = "lit" ->
            IF /\ i + Len(re.chars) - 1 <= Len(s)
               /\ \A n \in 1..Len(re.chars) :
                      CharEquals(re.chars[n], s[i + n - 1], ignoreCase)
            THEN <<MatchEnd(i + Len(re.chars), 0, 0)>> ELSE <<>>
      [] re.op = "cat" -> MatchCat(re.parts, 1, s, i, ignoreCase)
      [] re.op = "alt" ->
            Flatten([k \in 1..Len(re.parts) |-> MatchAt(re.parts[k], s, i, ignoreCase)])
      [] re.op = "rep" ->
            IF re.r.op = "cls"
            THEN MatchClassRep(re.r, re.min, re.max, s, i, ignoreCase)
            ELSE MatchRep(re.r, re.min, re.max, s, i, ignoreCase)
      [] re.op = "grp" ->
            With(MatchAt(re.r, s, i, ignoreCase), LAMBDA xs :
                [n \in 1..Len(xs) |-> MatchEnd(xs[n].e, i, xs[n].e)])

MatchCat(parts, k, s, i, ignoreCase) ==
    IF k > Len(parts) THEN <<MatchEnd(i, 0, 0)>>
    ELSE With(MatchAt(parts[k], s, i, ignoreCase), LAMBDA xs :
             Flatten([j \in 1..Len(xs) |->
                 KeepCapture(xs[j], MatchCat(parts, k + 1, s, xs[j].e, ignoreCase))]))

MatchRep(r, min, max, s, i, ignoreCase) ==
    (IF max = 0 THEN <<>>
     ELSE With(MatchAt(r, s, i, ignoreCase), LAMBDA xs :
              Flatten([j \in 1..Len(xs) |->
                  IF xs[j].e = i THEN <<>>
                  ELSE KeepCapture(xs[j],
                           MatchRep(r, IF min > 0 THEN min - 1 ELSE 0,
                                    IF max < 0 THEN max ELSE max - 1,
                                    s, xs[j].e, ignoreCase))])))
    \o (IF min <= 0 THEN <<MatchEnd(i, 0, 0)>> ELSE <<>>)

\* regex.exec(s) with lastIndex = from - 1: the leftmost match at or after
\* `from`, <<>> when there is none.  index is 0-based as match.index is.
ExecFrom(re, s, from, ignoreCase) ==
    With([p \in from..(Len(s) + 1) |-> MatchAt(re, s, p, ignoreCase)], LAMBDA at :
        IF \A p \in DOMAIN at : at[p] = <<>> THEN <<>>
        ELSE With(CHOOSE p \in DOMAIN at :
                      at[p] # <<>> /\ \A q \in DOMAIN at : q < p => at[q] = <<>>,
                  LAMBDA p :
                      <<[ index |-> p - 1, end |-> at[p][1].e,
                          whole |-> SubSeq(s, p, at[p][1].e - 1),
                          group |-> IF at[p][1].cs > 0
                                    THEN SubSeq(s, at[p][1].cs, at[p][1].ce - 1)
                                    ELSE <<>> ]>>))

\* while ((match = regex.exec(s)) !== null) with the g flag: every match,
\* each search starting where the previous match ended
RECURSIVE ExecAll(_, _, _, _)
ExecAll(re, s, from, ignoreCase) ==
    With(ExecFrom(re, s, from, ignoreCase), LAMBDA m :
        IF m = <<>> THEN <<>>
        ELSE <<m[1]>> \o ExecAll(re, s, IF m[1].end > from THEN m[1].end ELSE from + 1,
                                 ignoreCase))

\* pattern.test(s) for a pattern anchored with ^ and $, and with ^ alone
TestWhole(re, s, ignoreCase) ==
    \E xs \in {MatchAt(re, s, 1, ignoreCase)} :
        \E n \in 1..Len(xs) : xs[n].e = Len(s) + 1
TestPrefix(re, s, ignoreCase) == MatchAt(re, s, 1, ignoreCase) # <<>>

--------------------------------------------------------------------------
(* Pattern Registry (secretDetector.ts, SECRET_PATTERNS)                   *)

AssignTo(valueClass, min, max) ==
    <<Star(Cls(SpaceChars)), Cls({"=", ":"}), Star(Cls(SpaceChars)),
      Opt(Cls({"'", "\""})), Grp(Rep(Cls(valueClass), min, max)), Opt(Cls({"'", "\""}))>>

GenericApiKeyRe ==
    Cat(<<Alt(<<Cat(<<Word(<<"a","p","i">>), Opt(Cls({"_", "-"})), Word(<<"k","e","y">>)>>), Word(<<"a","p","i","k","e","y">>)>>)>> \o AssignTo(Alnum \cup {"_", "-"}, 32, Unbounded))
AwsAccessKeyRe == Cat(<<Word(<<"A","K","I","A">>), Rep(Cls(Digits \cup UpperLetters), 16, 16)>>)
AwsSecretKeyRe ==
    Cat(<<Word(<<"a","w","s">>), Opt(Cls({"_", "-"})), Word(<<"s","e","c","r","e","t">>), Opt(Cls({"_", "-"})), Word(<<"a","c","c","e","s","s">>),
          Opt(Cls({"_", "-"})), Word(<<"k","e","y">>)>>
        \o AssignTo(Alnum \cup {"/", "+", "="}, 40, 40))
GoogleApiKeyRe == Cat(<<Word(<<"A","I","z","a">>), Rep(Cls(Alnum \cup {"-", "_"}), 35, 35)>>)
GitHubTokenRe ==
    Alt(<<Cat(<<Word(<<"g","h","p","_">>), Rep(Cls(Alnum), 36, 36)>>),
          Cat(<<Word(<<"g","h","o","_">>), Rep(Cls(Alnum), 36, 36)>>),
          Cat(<<Word(<<"g","h","u","_">>), Rep(Cls(Alnum), 36, 36)>>),
          Cat(<<Word(<<"g","h","s","_">>), Rep(Cls(Alnum), 36, 36)>>),
          Cat(<<Word(<<"g","h","r","_">>), Rep(Cls(Alnum), 36, 36)>>)>>)
StripeApiKeyRe ==
    Cat(<<Alt(<<Word(<<"s","k">>), Word(<<"p","k">>)>>), Ch("_"), Alt(<<Word(<<"l","i","v","e">>), Word(<<"t","e","s","t">>)>>), Ch("_"), Rep(Cls(Alnum), 24, Unbounded)>>)
JwtTokenRe ==
    Cat(<<Word(<<"e","y","J">>), Plus(Cls(Alnum \cup {"-", "_", "="})), Ch("."),
          Word(<<"e","y","J">>), Plus(Cls(Alnum \cup {"-", "_", "="})), Opt(Ch(".")),
          Star(Cls(Alnum \cup {"-", "_", ".", "+", "/", "="}))>>)
DatabaseUrlRe ==
    Cat(<<Alt(<<Word(<<"m","o","n","g","o","d","b">>), Word(<<"m","y","s","q","l">>), Word(<<"p","o","s","t","g","r","e","s","q","l">>), Word(<<"p","o","s","t","g","r","e","s">>)>>), Ch(":"), Ch("/"), Ch("/"), Plus(NCls(SpaceChars \cup {"'", "\""}))>>)
FiveDashes == Word(<<"-","-","-","-","-">>)
SshPrivateKeyRe ==
    Cat(<<FiveDashes, Word(<<"B","E","G","I","N">>), Plus(Cls(SpaceChars)),
          Opt(Cat(<<Word(<<"R","S","A">>), Plus(Cls(SpaceChars))>>)),
          Word(<<"P","R","I","V","A","T","E">>), Plus(Cls(SpaceChars)), Word(<<"K","E","Y">>), FiveDashes>>)
OpenSshPrivateKeyRe ==
    Cat(<<FiveDashes, Word(<<"B","E","G","I","N">>), Plus(Cls(SpaceChars)), Word(<<"O","P","E","N","S","S","H">>), Plus(Cls(SpaceChars)),
          Word(<<"P","R","I","V","A","T","E">>), Plus(Cls(SpaceChars)), Word(<<"K","E","Y">>), FiveDashes>>)
EcPrivateKeyRe ==
    Cat(<<FiveDashes, Word(<<"B","E","G","I","N">>), Plus(Cls(SpaceChars)), Word(<<"E","C">>), Plus(Cls(SpaceChars)),
          Word(<<"P","R","I","V","A","T","E">>), Plus(Cls(SpaceChars)), Word(<<"K","E","Y">>), FiveDashes>>)
OAuthTokenRe ==
    Cat(<<Word(<<"o","a","u","t","h">>), Opt(Cls({"_", "-"})), Word(<<"t","o","k","e","n">>)>>
        \o AssignTo(Alnum \cup {"_", "-"}, 20, Unbounded))
GenericTokenRe ==
    Cat(<<Alt(<<Word(<<"t","o","k","e","n">>), Word(<<"s","e","c","r","e","t">>), Word(<<"p","a","s","s","w","o","r","d">>), Word(<<"p","a","s","s","w","d">>), Word(<<"p","w","d">>)>>)>> \o AssignTo(Alnum \cup {"_", "-", "+", "/", "="}, 20, Unbounded))
SlackTokenRe ==
    Cat(<<Word(<<"x","o","x">>), Cls({"b", "a", "p", "r", "s"}), Ch("-"),
          Rep(Cls(Alnum \cup {"-"}), 10, 48)>>)
TwilioApiKeyRe == Cat(<<Word(<<"S","K">>), Rep(Cls(Digits \cup HexLetters), 32, 32)>>)

PatternEntry(name, pattern, severity) ==
    [name |-> name, pattern |-> pattern, severity |-> severity]

SECRET_PATTERNS ==
    << PatternEntry(<<"G","e","n","e","r","i","c"," ","A","P","I"," ","K","e","y">>, GenericApiKeyRe, "high"),
       PatternEntry(<<"A","W","S"," ","A","c","c","e","s","s"," ","K","e","y">>, AwsAccessKeyRe, "high"),
       PatternEntry(AwsSecretKey, AwsSecretKeyRe, "high"),
       PatternEntry(<<"G","o","o","g","l","e"," ","A","P","I"," ","K","e","y">>, GoogleApiKeyRe, "high"),
       PatternEntry(<<"G","i","t","H","u","b"," ","T","o","k","e","n">>, GitHubTokenRe, "high"),
       PatternEntry(StripeApiKey, StripeApiKeyRe, "high"),
       PatternEntry(JwtToken, JwtTokenRe, "medium"),
       PatternEntry(<<"D","a","t","a","b","a","s","e"," ","C","o","n","n","e","c","t","i","o","n"," ","S","t","r","i","n","g">>, DatabaseUrlRe, "high"),
       PatternEntry(SshPrivateKey, SshPrivateKeyRe, "high"),
       PatternEntry(<<"O","p","e","n","S","S","H"," ","P","r","i","v","a","t","e"," ","K","e","y">>, OpenSshPrivateKeyRe, "high"),
       PatternEntry(<<"E","C"," ","P","r","i","v","a","t","e"," ","K","e","y">>, EcPrivateKeyRe, "high"),
       PatternEntry(<<"O","A","u","t","h"," ","T","o","k","e","n">>, OAuthTokenRe, "high"),
       PatternEntry(<<"G","e","n","e","r","i","c"," ","T","o","k","e","n">>, GenericTokenRe, "medium"),
       PatternEntry(<<"S","l","a","c","k"," ","T","o","k","e","n">>, SlackTokenRe, "high"),
       PatternEntry(<<"T","w","i","l","i","o"," ","A","P","I"," ","K","e","y">>, TwilioApiKeyRe, "high") >>

--------------------------------------------------------------------------
(* Dummy Filter (secretDetector.ts, DUMMY_PATTERNS and isDummyValue)       *)

WordTail == Star(Cls(WordChars \cup {"_", "-"}))
OptSep == Opt(Cls({"_", "-"}))

\* Each entry: the pattern between ^ and $, whether it has the i flag, and
\* whether it ends with $
DummyEntry(pattern, ignoreCase, toEnd) ==
    [pattern |-> pattern, ignoreCase |-> ignoreCase, toEnd |-> toEnd]

DUMMY_PATTERNS ==
    << DummyEntry(Cat(<<Alt(<<Cat(<<Word(<<"Y","O","U","R">>), OptSep>>), Cat(<<Word(<<"E","X","A","M","P","L","E">>), OptSep>>),
                              Cat(<<Word(<<"P","L","A","C","E","H","O","L","D","E","R">>), OptSep>>),
                              Cat(<<Word(<<"C","H","A","N","G","E">>), OptSep, Word(<<"M","E">>)>>),
                              Word(<<"T","O","D","O">>), Word(<<"F","I","X","M","E">>), Word(<<"X","X","X">>), Word(<<"T","E","M","P">>), Word(<<"D","U","M","M","Y">>)>>), WordTail>>),
                  TRUE, TRUE),
       DummyEntry(Cat(<<Alt(<<Word(<<"y","o","u","r">>), Word(<<"e","x","a","m","p","l","e">>), Word(<<"p","l","a","c","e","h","o","l","d","e","r">>), Word(<<"c","h","a","n","g","e","m","e">>), Word(<<"t","e","s","t">>), Word(<<"d","e","m","o">>), Word(<<"s","a","m","p","l","e">>), Word(<<"f","a","k","e">>), Word(<<"m","o","c","k">>)>>), WordTail>>), TRUE, TRUE),
       DummyEntry(Alt(<<Word(<<"t","e","s","t">>), Word(<<"t","e","s","t","i","n","g">>), Word(<<"t","e","s","t","1","2","3">>), Word(<<"t","e","s","t","_","k","e","y">>), Word(<<"t","e","s","t","_","t","o","k","e","n">>), Word(<<"t","e","s","t","_","s","e","c","r","e","t">>)>>), TRUE, TRUE),
       DummyEntry(Cat(<<Word(<<"t","e","s","t">>), WordTail>>), TRUE, TRUE),
       DummyEntry(Cat(<<Alt(<<Word(<<"e","x","a","m","p","l","e">>), Word(<<"s","a","m","p","l","e">>), Word(<<"t","e","s","t">>)>>), Ch("."), Alt(<<Word(<<"c","o","m">>), Word(<<"o","r","g">>), Word(<<"n","e","t">>), Word(<<"i","o">>)>>)>>), TRUE, TRUE),
       DummyEntry(Cat(<<Alt(<<Word(<<"e","x","a","m","p","l","e">>), Word(<<"s","a","m","p","l","e">>), Word(<<"t","e","s","t">>), Word(<<"d","e","m","o">>)>>), Ch("@"), Plus(Cls(WordChars \cup {".", "-"}))>>),
                  TRUE, TRUE),
       DummyEntry(Cat(<<Word(<<"1","2","3","4","5">>), Opt(Word(<<"6","7","8","9","0">>))>>), FALSE, TRUE),
       DummyEntry(Alt(<<Word(<<"a","b","c","d","e","f">>), Word(<<"1","2","3","4","5","6">>), Word(<<"q","w","e","r","t","y">>), Word(<<"p","a","s","s","w","o","r","d">>)>>), TRUE, TRUE),
       DummyEntry(Alt(<<Word(<<"a","p","i","_","k","e","y","_","h","e","r","e">>), Word(<<"y","o","u","r","_","k","e","y","_","h","e","r","e">>), Word(<<"k","e","y","_","h","e","r","e">>), Word(<<"t","o","k","e","n","_","h","e","r","e">>)>>), TRUE, TRUE),
       DummyEntry(Alt(<<Word(<<"n","u","l","l">>), Word(<<"u","n","d","e","f","i","n","e","d">>), Word(<<"n","o","n","e">>), Word(<<"e","m","p","t","y">>), Word(<<"'","'">>), Word(<<"\"","\"">>), Word(<<"[">>), Word(<<"]">>)>>), TRUE, TRUE),
       DummyEntry(Rep(NCls(LineTerminators), 0, 3), FALSE, TRUE),
       DummyEntry(Cat(<<Alt(<<Word(<<"d","e","v">>), Word(<<"d","e","v","e","l","o","p","m","e","n","t">>), Word(<<"l","o","c","a","l">>), Word(<<"l","o","c","a","l","h","o","s","t">>), Word(<<"1","2","7",".","0",".","0",".","1">>)>>), WordTail>>), TRUE, TRUE),
       DummyEntry(Word(<<"l","o","c","a","l","h","o","s","t">>), FALSE, FALSE),
       DummyEntry(Word(<<".","e","n","v",".","e","x","a","m","p","l","e">>), TRUE, TRUE),
       DummyEntry(Word(<<".","e","n","v",".","s","a","m","p","l","e">>), TRUE, TRUE) >>

\* The test of a pattern without its i flag
DummyTestCaseSensitive(entry, s) ==
    IF entry.toEnd THEN TestWhole(entry.pattern, s, FALSE)
    ELSE TestPrefix(entry.pattern, s, FALSE)

DummyTest(entry, s) ==
    IF entry.toEnd THEN TestWhole(entry.pattern, s, entry.ignoreCase)
    ELSE TestPrefix(entry.pattern, s, entry.ignoreCase)

RepeatMin == 3

\* isDummyValue(value)
isDummyValue(value) ==
    \E trimmed \in {Trim(value)} :
        \/ \E n \in 1..Len(DUMMY_PATTERNS) : DummyTest(DUMMY_PATTERNS[n], trimmed)
        \/ /\ Len(trimmed) > RepeatMin
           /\ \A n \in 1..Len(trimmed) : trimmed[n] = trimmed[1]

--------------------------------------------------------------------------
(* Scanner (secretDetector.ts, scanForSecrets)                             *)

ContextBefore == 30
ContextAfter == 50

\* The same loop without the isDummyValue test
PatternMatchesUnfiltered(entry, line, lineIndex, found) ==
    Flatten([n \in 1..Len(found) |->
        LET m == found[n]
            secretValue == IF m.group # <<>> THEN m.group ELSE m.whole
            column == m.index
            context == SubSeq(line, Max(0, column - ContextBefore) + 1,
                              Min(Len(line), column + ContextAfter))
        IN  <<[ type |-> entry.name, value |-> secretValue,
                line |-> lineIndex + 1, column |-> column + 1,
                context |-> Trim(context), severity |-> entry.severity ]>>])

\* The same loop reporting match.index and lineIndex as they are (0-based)
PatternMatchesZeroBased(entry, line, lineIndex, found) ==
    Flatten([n \in 1..Len(found) |->
        LET m == found[n]
            secretValue == IF m.group # <<>> THEN m.group ELSE m.whole
            column == m.index
            context == SubSeq(line, Max(0, column - ContextBefore) + 1,
                              Min(Len(line), column + ContextAfter))
        IN  IF ~isDummyValue(secretValue)
            THEN <<[ type |-> entry.name, value |-> secretValue,
                     line |-> lineIndex, column |-> column,
                     context |-> Trim(context), severity |-> entry.severity ]>>
            ELSE <<>>])

\* The matches one pattern contributes on one line (lines 204-227)
PatternMatches(entry, line, lineIndex, found) ==
    Flatten([n \in 1..Len(found) |->
        LET m == found[n]
            secretValue == IF m.group # <<>> THEN m.group ELSE m.whole
            column == m.index
            context == SubSeq(line, Max(0, column - ContextBefore) + 1,
                              Min(Len(line), column + ContextAfter))
        IN  IF ~isDummyValue(secretValue)
            THEN <<[ type |-> entry.name, value |-> secretValue,
                     line |-> lineIndex + 1, column |-> column + 1,
                     context |-> Trim(context), severity |-> entry.severity ]>>
            ELSE <<>>])

\* for (const { name, pattern, severity } of SECRET_PATTERNS) on one line
LineMatches(line, lineIndex) ==
    Flatten([k \in 1..Len(SECRET_PATTERNS) |->
        With(ExecAll(SECRET_PATTERNS[k].pattern, line, 1, TRUE), LAMBDA found :
            PatternMatches(SECRET_PATTERNS[k], line, lineIndex, found))])

\* scanForSecrets(text, uri)
scanForSecrets(text) ==
    With(SplitLines(text), LAMBDA lines :
        Flatten([n \in 1..Len(lines) |-> LineMatches(lines[n], n - 1)]))

--------------------------------------------------------------------------
(* Scan Scheduler: documents and settings                                  *)

\* vscode.Uri, and uri.toString()
Uri(scheme, path) == [scheme |-> scheme, path |-> path]
UriToString(uri) ==
    uri.scheme \o ":" \o (IF uri.scheme = "file" THEN "//" ELSE "") \o uri.path

FileA == Uri("file", "/a.env")
FileB == Uri("file", "/b.js")
Untitled == Uri("untitled", "Untitled-1")
Resources == {FileA, FileB, Untitled}

SCAN_DELAY_MS == 1000
MaxTextLength == 1000000

\* A document's text: chars, followed by pad blanks.  No pattern of the
\* registry starts or ends with white space and the context is trimmed, so
\* the blanks add to the length and leave the scan of chars as it is.
Text(chars, pad) == [chars |-> chars, pad |-> pad]
TextLength(text) == Len(text.chars) + text.pad

CleanChars == <<"x", " ", "=", " ", "1">>
SecretChars == <<"k", " ", "=", " ">> \o Value24 \o <<"a","b","c","d","e","f","g","h">>
CleanText == Text(CleanChars, 0)
CeilingText == Text(SecretChars, MaxTextLength - Len(SecretChars))
OversizeText == Text(SecretChars, MaxTextLength + 1 - Len(SecretChars))
Texts == {CleanText, CeilingText, OversizeText}

\* scanForSecrets(text, document.uri) for the texts above
TextScan == [text \in Texts |-> scanForSecrets(text.chars)]

\* document.getText().length > 1000000, with >= in place of >
TooLargeAtCeiling(text) == TextLength(text) >= MaxTextLength

\* document.getText().length > 1000000
TooLarge(text) == TextLength(text) > MaxTextLength

\* Map.prototype.set that adds an entry whether or not the key is there
MapSetAppend(map, key, value) == Append(map, [key |-> key, value |-> value])

\* Map.prototype.set: the entry of the key is replaced where it stands, a new
\* key is added at the end
MapSet(map, key, value) ==
    IF \E i \in 1..Len(map) : map[i].key = key
    THEN [i \in 1..Len(map) |->
             IF map[i].key = key THEN [key |-> key, value |-> value] ELSE map[i]]
    ELSE Append(map, [key |-> key, value |-> value])

\* Map.prototype.get, as <<>> or <<value>>
MapGet(map, key) ==
    IF \E i \in 1..Len(map) : map[i].key = key
    THEN <<map[CHOOSE i \in 1..Len(map) : map[i].key = key].value>>
    ELSE <<>>

\* getDiagnosticSeverity(severity)
getDiagnosticSeverity(severity) ==
    CASE severity = "high" -> "Error"
      [] severity = "medium" -> "Warning"
      [] severity = "low" -> "Information"

\* The diagnostics updateDiagnostics(uri, matches) sets for the uri
Diagnostics(matches) ==
    [n \in 1..Len(matches) |->
        [ line |-> matches[n].line - 1,
          message |-> [t |-> "Secret detected: {type} - {redacted}",
                       type |-> matches[n].type,
                       redacted |-> redactSecret(matches[n].value)],
          severity |-> getDiagnosticSeverity(matches[n].severity),
          source |-> "keyleaks",
          code |-> matches[n].type ]]

\* A message of vscode.window
Message(kind, text, type, n) == [kind |-> kind, text |-> text, type |-> type, n |-> n]

\* showAlerts(uri, matches): the window after the alert
showAlerts(uri, matches) ==
    [ message |-> <<Message("error", "SECRET DETECTED: {type} found at line {n}",
                            matches[1].type, matches[1].line)>>,
      bell |-> config.enableSoundAlerts,
      status |-> <<[text |-> "KeyLeaks: {n} secret(s) detected in {uri}",
                    n |-> Len(matches), uri |-> uri]>> ]

\* matches.filter(m => m.severity === 'high')
HighSeverity(matches) == SelectSeq(matches, LAMBDA m : m.severity = "high")

\* A scanDocument that forgets the resource when it skips the scan: the entry
\* and the diagnostics of the document are removed
scanDocumentForgetsSkipped(document, throws) ==
    IF document.scheme # "file" \/ TooLarge(documents[document])
    THEN [outcome |-> IF document.scheme # "file" THEN "notFile" ELSE "tooLarge",
          scannedFiles |-> SelectSeq(scannedFiles,
                                     LAMBDA entry : entry.key # UriToString(document)),
          diagnostics |-> [diagnostics EXCEPT ![document] = <<>>],
          window |-> window, threw |-> FALSE]
    ELSE LET matches == TextScan[documents[document]]
             stored == MapSet(scannedFiles, UriToString(document),
                              [uri |-> document, matches |-> matches,
                               lastScanned |-> now])
         IN  IF throws
             THEN [outcome |-> "scanned", scannedFiles |-> stored,
                   diagnostics |-> diagnostics, window |-> window, threw |-> TRUE]
             ELSE [outcome |-> "scanned", scannedFiles |-> stored,
                   diagnostics |-> [diagnostics EXCEPT ![document] = Diagnostics(matches)],
                   window |-> IF HighSeverity(matches) # <<>>
                              THEN showAlerts(document, HighSeverity(matches))
                              ELSE window,
                   threw |-> FALSE]

\* scanDocument(document): how the call ends, and what it leaves behind.
\* throws: diagnostics.set fails on a collection that was disposed
scanDocument(document, throws) ==
    IF document.scheme # "file"
    THEN [outcome |-> "notFile", scannedFiles |-> scannedFiles,
          diagnostics |-> diagnostics, window |-> window, threw |-> FALSE]
    ELSE IF TooLarge(documents[document])
    THEN [outcome |-> "tooLarge", scannedFiles |-> scannedFiles,
          diagnostics |-> diagnostics, window |-> window, threw |-> FALSE]
    ELSE LET matches == TextScan[documents[document]]
             stored == MapSet(scannedFiles, UriToString(document),
                              [uri |-> document, matches |-> matches,
                               lastScanned |-> now])
         IN  IF throws
             THEN [outcome |-> "scanned", scannedFiles |-> stored,
                   diagnostics |-> diagnostics, window |-> window, threw |-> TRUE]
             ELSE [outcome |-> "scanned", scannedFiles |-> stored,
                   diagnostics |-> [diagnostics EXCEPT ![document] = Diagnostics(matches)],
                   window |-> IF HighSeverity(matches) # <<>>
                              THEN showAlerts(document, HighSeverity(matches))
                              ELSE window,
                   threw |-> FALSE]

\* Array.from(scannedFiles.values()).reduce((sum, file) => sum + file.matches.length, 0)
RECURSIVE TotalMatches(_)
TotalMatches(map) ==
    IF map = <<>> THEN 0
    ELSE Len(Head(map).value.matches) + TotalMatches(Tail(map))

\* The message that ends scanWorkspace
Summary(map) ==
    IF TotalMatches(map) > 0
    THEN Message("warning", "KeyLeaks: Found {n} potential secret(s) in your workspace",
                 <<>>, TotalMatches(map))
    ELSE Message("info", "KeyLeaks: No secrets detected in workspace", <<>>, 0)

\* What findFiles can return: no file, or the files in either order
FileLists == {<<>>, <<FileA, FileB>>, <<FileB, FileA>>}

\* The settings at activation (package defaults)
DefaultConfig ==
    [enableRealTimeScanning |-> TRUE, scanOnSave |-> TRUE, enableSoundAlerts |-> TRUE]
\* The settings the user changes in the settings editor
Settings == {"scanOnSave"}

--------------------------------------------------------------------------
(* Scan Scheduler: the extension as a process                              *)

MaxEvents == 2
MaxRuns == 1
TickMs == 500
MaxTime == 1500

\* The workspace at activation
InitialDocuments ==
    { [uri \in Resources |-> CleanText],
      [uri \in Resources |-> IF uri = FileA THEN OversizeText
                             ELSE CeilingText] }

\* A scanWorkspace call waiting for findFiles.  found is kept for the
\* properties: the matches of the scans this call has made so far
NoRun == [pc |-> "finding", files |-> <<>>, i |-> 0, scanned |-> 0, found |-> 0]

\* The state the constructor leaves: listeners set up, the initial workspace
\* scan waiting for findFiles, the activation message shown
SchedulerInit ==
    /\ documents \in InitialDocuments
    /\ scannedFiles = <<>>
    /\ diagnostics = [uri \in Resources |-> <<>>]
    /\ changeDelayTimer = <<>>
    /\ now = 0
    /\ config = DefaultConfig
    /\ disposed = FALSE
    /\ runs = <<NoRun>>
    /\ window = [ message |-> <<Message("info",
                                  "KeyLeaks: Real-time secret detection enabled", <<>>, 0)>>,
                  bell |-> FALSE, status |-> <<>> ]
    /\ events = 0
    /\ lastTrigger = <<>>
    /\ lastEdit = [uri \in Resources |-> <<>>]
    /\ lastFire = [uri \in Resources |-> <<>>]
    /\ burst = <<>>
    /\ lastScan = [uri \in Resources |-> <<>>]

Init == AdviceInit /\ SchedulerInit /\ NoCall /\ NoPanel

TimerPending == changeDelayTimer # <<>> /\ changeDelayTimer[1].pending
TimerDue == TimerPending /\ changeDelayTimer[1].due <= now

\* An edit handler that leaves a pending timer running
ArmTimerKeepFirst(document) ==
    IF TimerPending THEN changeDelayTimer
    ELSE <<[document |-> document, due |-> now + SCAN_DELAY_MS, pending |-> TRUE]>>

\* clearTimeout(this.changeDelayTimer); this.changeDelayTimer = setTimeout(...)
ArmTimer(document) ==
    <<[document |-> document, due |-> now + SCAN_DELAY_MS, pending |-> TRUE]>>

\* A save handler that never scans
ShouldScanOnSaveNever == FALSE

\* config.get<boolean>('scanOnSave', true)
ShouldScanOnSave == config.scanOnSave

\* What lastTrigger records of a handler
Trigger(kind, document, called, outcome, settingOn, length) ==
    <<[ n |-> IF lastTrigger = <<>> THEN 0 ELSE 1 - lastTrigger[1].n,
        kind |-> kind, document |-> document, called |-> called,
        outcome |-> outcome, settingOn |-> settingOn, length |-> length,
        timerPending |-> TimerPending ]>>

\* What lastScan records of a scanDocument call
Scanned(document, outcome) ==
    IF outcome = "scanned"
    THEN [lastScan EXCEPT ![document] =
             <<[uri |-> document, matches |-> TextScan[documents[document]],
                lastScanned |-> now]>>]
    ELSE lastScan

\* The edit events on one uri that follow one another by less than the delay
Burst(document, armed) ==
    IF /\ burst # <<>>
       /\ burst[1].document = document
       /\ now - burst[1].last < SCAN_DELAY_MS
    THEN <<[burst[1] EXCEPT !.last = now, !.armed = @ /\ armed, !.size = @ + 1]>>
    ELSE <<[document |-> document, last |-> now, armed |-> armed, size |-> 1,
            fires |-> 0, fireAt |-> 0]>>

\* onDidChangeTextDocument: the document has changed
OnDidChangeTextDocument ==
    /\ ~disposed /\ ~TimerDue /\ events < MaxEvents
    /\ \E document \in Resources, text \in Texts :
          /\ documents' = [documents EXCEPT ![document] = text]
          /\ changeDelayTimer' = IF config.enableRealTimeScanning
                                 THEN ArmTimer(document) ELSE changeDelayTimer
          /\ lastEdit' = [lastEdit EXCEPT ![document] =
                             <<[at |-> now, armed |-> config.enableRealTimeScanning]>>]
          /\ burst' = Burst(document, config.enableRealTimeScanning)
          /\ lastTrigger' = Trigger("edit", document, FALSE, "none",
                                    config.enableRealTimeScanning, TextLength(text))
    /\ events' = events + 1
    /\ UNCHANGED <<scannedFiles, diagnostics, now, config, disposed, runs, window,
                   lastFire, lastScan>>
    /\ UNCHANGED <<adviceVars, callVars, panelVars>>

\* onDidSaveTextDocument
OnDidSaveTextDocument ==
    /\ ~disposed /\ ~TimerDue /\ events < MaxEvents
    /\ \E document \in Resources :
          LET r == scanDocument(document, FALSE)
          IN  IF ShouldScanOnSave
              THEN /\ scannedFiles' = r.scannedFiles
                   /\ diagnostics' = r.diagnostics
                   /\ window' = r.window
                   /\ lastScan' = Scanned(document, r.outcome)
                   /\ lastTrigger' = Trigger("save", document, TRUE, r.outcome,
                                             config.scanOnSave,
                                             TextLength(documents[document]))
              ELSE /\ lastTrigger' = Trigger("save", document, FALSE, "none",
                                             config.scanOnSave,
                                             TextLength(documents[document]))
                   /\ UNCHANGED <<scannedFiles, diagnostics, window, lastScan>>
    /\ events' = events + 1
    /\ UNCHANGED <<documents, changeDelayTimer, now, config, disposed, runs,
                   lastEdit, lastFire, burst>>
    /\ UNCHANGED <<adviceVars, callVars, panelVars>>

\* onDidOpenTextDocument
OnDidOpenTextDocument ==
    /\ ~disposed /\ ~TimerDue /\ events < MaxEvents
    /\ \E document \in Resources :
          LET r == scanDocument(document, FALSE)
          IN  /\ scannedFiles' = r.scannedFiles
              /\ diagnostics' = r.diagnostics
              /\ window' = r.window
              /\ lastScan' = Scanned(document, r.outcome)
              /\ lastTrigger' = Trigger("open", document, TRUE, r.outcome, TRUE,
                                        TextLength(documents[document]))
    /\ events' = events + 1
    /\ UNCHANGED <<documents, changeDelayTimer, now, config, disposed, runs,
                   lastEdit, lastFire, burst>>
    /\ UNCHANGED <<adviceVars, callVars, panelVars>>

\* The setTimeout callback: this.scanDocument(event.document)
TimerFire ==
    /\ TimerDue
    /\ LET document == changeDelayTimer[1].document
           r == scanDocument(document, FALSE)
       IN  /\ scannedFiles' = r.scannedFiles
           /\ diagnostics' = r.diagnostics
           /\ window' = r.window
           /\ lastScan' = Scanned(document, r.outcome)
           /\ lastTrigger' = Trigger("timer", document, TRUE, r.outcome, TRUE,
                                     TextLength(documents[document]))
           /\ lastFire' = [lastFire EXCEPT ![document] = <<now>>]
           /\ burst' = IF burst # <<>> /\ burst[1].document = document
                       THEN <<[burst[1] EXCEPT !.fires = @ + 1, !.fireAt = now]>>
                       ELSE burst
    /\ changeDelayTimer' = <<[changeDelayTimer[1] EXCEPT !.pending = FALSE]>>
    /\ UNCHANGED <<documents, now, config, disposed, runs, events, lastEdit>>
    /\ UNCHANGED <<adviceVars, callVars, panelVars>>

\* Time passes, up to the moment the pending timer is due.  Node runs an
\* expired timer before it takes the next editor event.
Tick ==
    /\ ~TimerDue /\ now < MaxTime
    /\ now' = LET next == Min(now + TickMs, MaxTime)
              IN  IF TimerPending THEN Min(next, changeDelayTimer[1].due) ELSE next
    /\ UNCHANGED <<documents, scannedFiles, diagnostics, changeDelayTimer, config,
                   disposed, runs, window, events,
                   lastTrigger, lastEdit, lastFire, burst, lastScan>>
    /\ UNCHANGED <<adviceVars, callVars, panelVars>>

\* The sequence without its n-th element
Remove(seq, n) == SubSeq(seq, 1, n - 1) \o SubSeq(seq, n + 1, Len(seq))

\* The command keyleaks.scanWorkspace: scanWorkspace() up to await findFiles
ScanWorkspaceCommand ==
    /\ ~disposed /\ ~TimerDue /\ events < MaxEvents
    /\ Len(runs) < MaxRuns
    /\ runs' = Append(runs, NoRun)
    /\ events' = events + 1
    /\ UNCHANGED <<documents, scannedFiles, diagnostics, changeDelayTimer, now, config,
                   disposed, window, lastTrigger, lastEdit, lastFire, burst, lastScan>>
    /\ UNCHANGED <<adviceVars, callVars, panelVars>>

\* findFiles resolves; with no file the loop is over at once
FindFilesDone ==
    \E n \in 1..Len(runs) :
        /\ runs[n].pc = "finding"
        /\ \E files \in FileLists :
              IF files = <<>>
              THEN /\ runs' = Remove(runs, n)
                   /\ window' = [window EXCEPT !.message = <<Summary(scannedFiles)>>]
              ELSE /\ runs' = [runs EXCEPT ![n] = [pc |-> "scanning", files |-> files,
                                                   i |-> 1, scanned |-> 0, found |-> 0]]
                   /\ UNCHANGED window
        /\ UNCHANGED <<documents, scannedFiles, diagnostics, changeDelayTimer, now, config,
                       disposed, events, lastTrigger, lastEdit, lastFire, burst, lastScan>>
        /\ UNCHANGED <<adviceVars, callVars, panelVars>>

\* The number of matches a scanDocument call has found
MatchCount(document, outcome) ==
    IF outcome = "scanned" THEN Len(TextScan[documents[document]]) ELSE 0

\* One turn of the loop of scanWorkspace: openTextDocument resolves or
\* rejects, scanDocument runs, and after the last file the summary is shown
BatchStep ==
    \E n \in 1..Len(runs) :
        /\ runs[n].pc = "scanning"
        /\ \E opened \in BOOLEAN, throws \in (IF disposed THEN BOOLEAN ELSE {FALSE}) :
              LET run == runs[n]
                  file == run.files[run.i]
                  r == IF opened THEN scanDocument(file, throws)
                       ELSE [outcome |-> "none", scannedFiles |-> scannedFiles,
                             diagnostics |-> diagnostics, window |-> window,
                             threw |-> TRUE]
              IN  /\ scannedFiles' = r.scannedFiles
                  /\ diagnostics' = r.diagnostics
                  /\ lastScan' = Scanned(file, r.outcome)
                  /\ lastTrigger' = Trigger("batch", file, opened, r.outcome, TRUE,
                                            TextLength(documents[file]))
                  /\ IF run.i = Len(run.files)
                     THEN /\ runs' = Remove(runs, n)
                          /\ window' = [r.window EXCEPT
                                           !.message = <<Summary(r.scannedFiles)>>]
                     ELSE /\ runs' = [runs EXCEPT
                                         ![n].i = @ + 1,
                                         ![n].scanned = IF r.threw THEN @ ELSE @ + 1,
                                         ![n].found = @ + MatchCount(file, r.outcome)]
                          /\ window' = r.window
        /\ UNCHANGED <<documents, changeDelayTimer, now, config, disposed, events,
                       lastEdit, lastFire, burst>>
        /\ UNCHANGED <<adviceVars, callVars, panelVars>>

\* The command keyleaks.toggleRealTimeScanning
ToggleRealTimeScanning ==
    /\ ~disposed /\ ~TimerDue /\ events < MaxEvents
    /\ config' = [config EXCEPT !.enableRealTimeScanning = ~@]
    /\ window' = [window EXCEPT !.message =
                     <<Message("info",
                               IF ~config.enableRealTimeScanning
                               THEN "Real-time scanning enabled"
                               ELSE "Real-time scanning disabled", <<>>, 0)>>]
    /\ events' = events + 1
    /\ UNCHANGED <<documents, scannedFiles, diagnostics, changeDelayTimer, now,
                   disposed, runs, lastTrigger, lastEdit, lastFire, burst, lastScan>>
    /\ UNCHANGED <<adviceVars, callVars, panelVars>>

\* The user changes a setting of the extension
UpdateSetting ==
    /\ ~disposed /\ ~TimerDue /\ events < MaxEvents
    /\ \E name \in Settings : config' = [config EXCEPT ![name] = ~@]
    /\ events' = events + 1
    /\ UNCHANGED <<documents, scannedFiles, diagnostics, changeDelayTimer, now,
                   disposed, runs, window, lastTrigger, lastEdit, lastFire, burst,
                   lastScan>>
    /\ UNCHANGED <<adviceVars, callVars, panelVars>>

\* dispose()
Dispose ==
    /\ ~disposed /\ ~TimerDue
    /\ changeDelayTimer' = IF changeDelayTimer = <<>> THEN <<>>
                           ELSE <<[changeDelayTimer[1] EXCEPT !.pending = FALSE]>>
    /\ diagnostics' = [uri \in Resources |-> <<>>]
    /\ scannedFiles' = <<>>
    /\ disposed' = TRUE
    /\ UNCHANGED <<documents, now, config, runs, window, events,
                   lastTrigger, lastEdit, lastFire, burst, lastScan>>
    /\ UNCHANGED <<adviceVars, callVars, panelVars>>

Next ==
    \/ OnDidChangeTextDocument
    \/ OnDidSaveTextDocument
    \/ OnDidOpenTextDocument
    \/ TimerFire
    \/ Tick
    \/ ScanWorkspaceCommand
    \/ FindFilesDone
    \/ BatchStep
    \/ ToggleRealTimeScanning
    \/ UpdateSetting
    \/ Dispose

Spec == Init /\ [][Next]_vars

SpecAdvice == Init /\ [][AdviceNext]_vars

--------------------------------------------------------------------------
(* Scan Scheduler: claims                                                  *)

\* The quiet period that began at `at` is over, and the timer due at its end
\* (if there is one) has run
QuietElapsed(at) == now >= at + SCAN_DELAY_MS /\ ~TimerDue

\* How scanDocument has to end for a document of the given length
ExpectedOutcome(uri, length) ==
    IF uri.scheme # "file" THEN "notFile"
    ELSE IF length > MaxTextLength THEN "tooLarge" ELSE "scanned"

\* C6: debounce timers are per resource: every resource edited while
\* real-time scanning is on gets its debounced scan exactly when its own
\* quiet period has elapsed, whatever is edited elsewhere in between.
C6_EachEditedResourceScannedAfterItsQuietPeriod ==
    \A uri \in Resources :
        ( /\ lastEdit[uri] # <<>>
          /\ lastEdit[uri][1].armed
          /\ ~disposed
          /\ QuietElapsed(lastEdit[uri][1].at) )
        => lastFire[uri] = <<lastEdit[uri][1].at + SCAN_DELAY_MS>>

\* C7 (as stated): a burst of edit events on one resource, each less than the
\* quiet period after the previous one, followed by a full quiet period with
\* no edit event, gets exactly one debounced scan, one quiet period after
\* its last event.
C7_BurstGetsOneScanAfterQuietPeriod ==
    (burst # <<>> /\ QuietElapsed(burst[1].last))
    => (burst[1].fires = 1 /\ burst[1].fireAt = burst[1].last + SCAN_DELAY_MS)

\* C7 (amended): the same for a burst whose events all arrive while real-time
\* scanning is enabled and the extension is not disposed: no debounced scan
\* of the resource runs before the quiet period after the last event is
\* over, and exactly one runs at its end.
C7_EnabledBurstGetsOneScanAfterQuietPeriod ==
    (burst # <<>> /\ burst[1].armed /\ ~disposed)
    => /\ burst[1].fires <= 1
       /\ burst[1].fires = 1 => burst[1].fireAt = burst[1].last + SCAN_DELAY_MS
       /\ QuietElapsed(burst[1].last) => burst[1].fires = 1

C7_Witness ==
    /\ burst # <<>> /\ burst[1].armed /\ ~disposed
    /\ burst[1].size >= 2
    /\ burst[1].fires = 1
    /\ burst[1].last > 0

\* C8 (as stated): every save event and every open event runs the scan of
\* its resource within the handling of the event.
C8_SaveAndOpenScanImmediately ==
    (lastTrigger # <<>> /\ lastTrigger[1].kind \in {"save", "open"})
    => lastTrigger[1].called

\* C8 (amended): every open event, and every save event received while the
\* scanOnSave setting is on, runs the scan of its resource within the
\* handling of the event, whether or not a debounce timer is pending; a save
\* event received while the setting is off scans nothing.
C8_OpenAndEnabledSaveScanImmediately ==
    (lastTrigger # <<>> /\ lastTrigger[1].kind \in {"save", "open"})
    => /\ lastTrigger[1].called
              <=> (lastTrigger[1].kind = "open" \/ lastTrigger[1].settingOn)
       /\ lastTrigger[1].called
              => lastTrigger[1].outcome =
                     ExpectedOutcome(lastTrigger[1].document, lastTrigger[1].length)

C8_Witness ==
    /\ lastTrigger # <<>>
    /\ lastTrigger[1].kind = "save"
    /\ lastTrigger[1].timerPending
    /\ lastTrigger[1].called
    /\ lastTrigger[1].outcome = "scanned"
    /\ TimerPending

\* C9: the map holds at most one entry per resource, and the entry of a
\* resource is the whole result of the last scan executed for it.
C9_OneEntryPerResourceLastWriteWins ==
    /\ \A i, j \in 1..Len(scannedFiles) :
           scannedFiles[i].key = scannedFiles[j].key => i = j
    /\ \A uri \in Resources :
           LET entry == MapGet(scannedFiles, UriToString(uri))
           IN  /\ entry # <<>> => entry = lastScan[uri]
               /\ (lastScan[uri] # <<>> /\ ~disposed) => entry # <<>>

\* An entry that was written before another one and scanned after it: its
\* result was replaced where it stood
C9_Witness ==
    \E i, j \in 1..Len(scannedFiles) :
        /\ i < j
        /\ scannedFiles[i].value.lastScanned > scannedFiles[j].value.lastScanned
        /\ scannedFiles[i].value = lastScan[scannedFiles[i].value.uri][1]

\* C10: whatever calls scanDocument (timer, save, open, batch), a text longer
\* than 1,000,000 characters is not scanned: the map, the diagnostics and the
\* alerts stay as they are, no error message appears, and a batch goes on to
\* its next file; a file of at most 1,000,000 characters is scanned and its
\* result stored.
C10_OversizeTextNeverScanned ==
    [][ (lastTrigger' # lastTrigger /\ lastTrigger'[1].called)
        => LET call == lastTrigger'[1]
           IN  /\ call.length > MaxTextLength
                   => /\ call.outcome # "scanned"
                      /\ UNCHANGED <<scannedFiles, diagnostics, lastScan>>
                      /\ window'.status = window.status
                      /\ window'.bell = window.bell
                      /\ \/ window'.message = window.message
                         \/ window'.message[1].kind # "error"
                      /\ call.kind = "batch"
                           => \E n \in 1..Len(runs) :
                                 /\ runs[n].pc = "scanning"
                                 /\ runs[n].files[runs[n].i] = call.document
                                 /\ IF runs[n].i < Len(runs[n].files)
                                    THEN runs' = [runs EXCEPT ![n].i = @ + 1,
                                                              ![n].scanned = @ + 1]
                                    ELSE runs' = Remove(runs, n)
               /\ (call.length <= MaxTextLength /\ call.document.scheme = "file")
                   => /\ call.outcome = "scanned"
                      /\ MapGet(scannedFiles', UriToString(call.document))
                           = <<[uri |-> call.document,
                                matches |-> TextScan[documents[call.document]],
                                lastScanned |-> now]>>
      ]_vars

\* A batch has skipped an oversize file and goes on, while a file of exactly
\* 1,000,000 characters has its matches in the map
C10_Witness ==
    /\ lastTrigger # <<>>
    /\ lastTrigger[1].kind = "batch"
    /\ lastTrigger[1].outcome = "tooLarge"
    /\ lastTrigger[1].length = MaxTextLength + 1
    /\ \E n \in 1..Len(runs) : runs[n].pc = "scanning" /\ runs[n].i = 2
    /\ \E uri \in Resources :
          /\ TextLength(documents[uri]) = MaxTextLength
          /\ lastScan[uri] # <<>>
          /\ lastScan[uri][1].matches # <<>>
          /\ MapGet(scannedFiles, UriToString(uri)) = lastScan[uri]

\* C11: the total a batch scan reports when it ends is the sum of the match
\* counts of the scans that batch has made: files it skipped or could not
\* open, and results the map keeps from other scans, add nothing.
C11_BatchTotalCountsOnlyItsOwnScans ==
    [][ /\ \A n \in 1..Len(runs) :
              (runs[n].pc = "finding" /\ runs' = Remove(runs, n))
              => window'.message[1].n = 0
        /\ \A n \in 1..Len(runs) :
              (runs[n].pc = "scanning" /\ runs' = Remove(runs, n))
              => window'.message[1].n =
                     runs[n].found
                     + MatchCount(lastTrigger'[1].document, lastTrigger'[1].outcome)
      ]_vars

\* A step in which scanDocument ran to its end and put up the alert of
\* showAlerts
ScanRaisesAlert ==
    /\ lastTrigger' # lastTrigger
    /\ lastTrigger'[1].called
    /\ lastTrigger'[1].outcome = "scanned"
    /\ window' # window
    /\ window'.message[1].kind = "error"
    /\ window'.message[1].text = "SECRET DETECTED: {type} found at line {n}"

\* C24: a scan raises an alert only if its result holds a high-severity match
\* that the resource's previous result did not hold; a re-scan with unchanged
\* matches raises none.
C24_AlertsOnlyForNewHighSeverityMatches ==
    [][ ScanRaisesAlert =>
          LET key == UriToString(lastTrigger'[1].document)
              previous == MapGet(scannedFiles, key)
              matches == MapGet(scannedFiles', key)[1].matches
          IN  \E i \in 1..Len(matches) :
                  /\ matches[i].severity = "high"
                  /\ previous = <<>>
                     \/ \A k \in 1..Len(previous[1].matches) :
                            previous[1].matches[k] # matches[i]
      ]_vars

\* A step in which the setTimeout callback of an edit runs its scan
DebouncedScanRuns ==
    /\ lastTrigger' # lastTrigger
    /\ lastTrigger'[1].kind = "timer"
    /\ lastTrigger'[1].called

\* C26: while real-time scanning is disabled no debounced scan runs, the scan
\* of a timer that was pending when the setting was turned off included.
C26_NoDebouncedScanWhileDisabled ==
    [][ DebouncedScanRuns => config.enableRealTimeScanning ]_vars

\* The matches of the result the map holds for the uri: none without an entry
StoredMatches(uri) ==
    LET entry == MapGet(scannedFiles, UriToString(uri))
    IN  IF entry = <<>> THEN <<>> ELSE entry[1].matches

\* C27: in every reachable state the diagnostics published for a resource
\* are, one for one and in order, those of the matches of the result the map
\* holds for it: a result is stored and its diagnostics are published in one
\* step.
C27_DiagnosticsMirrorStoredResult ==
    \A uri \in Resources : diagnostics[uri] = Diagnostics(StoredMatches(uri))

\* A step in which scanDocument was called for a document it has to skip: one
\* that is not a file, or one of more than 1,000,000 characters
SkippedScan ==
    /\ lastTrigger' # lastTrigger
    /\ lastTrigger'[1].called
    /\ \/ lastTrigger'[1].document.scheme # "file"
       \/ lastTrigger'[1].length > MaxTextLength

\* C28: a skipped scan leaves the map and the diagnostics as they are: the
\* result an earlier scan stored for the resource stays in the map, with its
\* diagnostics, and stays in the total of the map.
C28_SkippedScanKeepsEarlierResult ==
    [][ SkippedScan =>
          /\ lastTrigger'[1].outcome \in {"notFile", "tooLarge"}
          /\ UNCHANGED <<scannedFiles, diagnostics>>
          /\ MapGet(scannedFiles', UriToString(lastTrigger'[1].document))
                = MapGet(scannedFiles, UriToString(lastTrigger'[1].document))
          /\ TotalMatches(scannedFiles') = TotalMatches(scannedFiles)
      ]_vars

\* The scan of a file has been skipped for its size, and the match an earlier
\* scan found in it is still stored, published and counted
C28_Witness ==
    /\ lastTrigger # <<>>
    /\ lastTrigger[1].called
    /\ lastTrigger[1].outcome = "tooLarge"
    /\ lastTrigger[1].length > MaxTextLength
    /\ Len(StoredMatches(lastTrigger[1].document)) > 0
    /\ Len(diagnostics[lastTrigger[1].document]) = Len(StoredMatches(lastTrigger[1].document))
    /\ TotalMatches(scannedFiles) > 0

\* A step in which scanDocument ran
ScanExecutes == lastTrigger' # lastTrigger /\ lastTrigger'[1].called

\* C29: once dispose has run no scan executes and the map stays empty: the
\* pending timer was cancelled, and a batch in progress stores nothing more.
C29_NothingScannedOrStoredAfterDispose ==
    [][ disposed => (~ScanExecutes /\ scannedFiles' = <<>>) ]_vars

--------------------------------------------------------------------------
(* Calls of the pure functions: the inputs                                 *)

\* Left-hand sides a secret is assigned to in a source line
NoPrefix ==
    <<>>
TokenPrefix ==
    <<"t","o","k","e","n","=">>
OAuthPrefix ==
    <<"o","a","u","t","h","_","t","o","k","e","n","=">>
ApiKeyPrefix ==
    <<"a","p","i","K","e","y"," ","="," ","\"">>
ConstPrefix ==
    <<"c","o","n","s","t"," ","A","P","I","_","K","E","Y"," ","="," ","\"">>
PasswordPrefix ==
    <<"p","a","s","s","w","o","r","d",":"," ">>
LinePrefixes ==
    {NoPrefix, TokenPrefix, OAuthPrefix, ApiKeyPrefix, ConstPrefix, PasswordPrefix}

\* Candidate values: real-looking keys, placeholders and test values
Stripe32 == Value24 \o <<"a","b","c","d","e","f","g","h">>
AwsAccess20 ==
    <<"A","K","I","A","1","2","3","4","5","6","7","8","9","0","A","B","C",
      "D","E","F">>
YourApiKeyHere ==
    <<"Y","O","U","R","_","A","P","I","_","K","E","Y","_","H","E","R","E">>
TestValue25 ==
    <<"t","e","s","t","_","0","1","2","3","4","5","6","7","8","9","a","b",
      "c","d","e","f","g","h","i","j">>
Random20 ==
    <<"a","b","c","d","e","f","g","h","i","j","0","1","2","3","4","5","6",
      "7","8","9">>
Random32 ==
    <<"Z","x","8","Q","w","3","E","r","5","T","y","7","U","i","9","O","p",
      "1","A","s","2","D","f","4","G","h","6","J","k","0","L","m">>
Repeated24 ==
    <<"a","a","a","a","a","a","a","a","a","a","a","a","a","a","a","a","a",
      "a","a","a","a","a","a","a">>
Placeholder28 ==
    <<"p","l","a","c","e","h","o","l","d","e","r","_","v","a","l","u","e",
      "_","0","1","2","3","4","5","6","7","8","9">>
CandidateValues ==
    {Value24, Stripe32, AwsAccess20, YourApiKeyHere, TestValue25, Random20, Random32, Repeated24, Placeholder28}

\* What follows the value on the line
NoSuffix == <<>>
QuoteSuffix == <<"\"", ";">>
LineSuffixes == {NoSuffix, QuoteSuffix}

\* One source line: prefix, value, suffix
SourceLine(prefix, value, suffix) == prefix \o value \o suffix

\* The texts handed to scanForSecrets: every line, and two two-line texts
ScanTexts ==
    {SourceLine(p, v, s) : p \in LinePrefixes, v \in CandidateValues, s \in LineSuffixes}
    \cup {SourceLine(TokenPrefix, Random20, NoSuffix) \o <<"\n">>
            \o SourceLine(PasswordPrefix, Random20, NoSuffix),
          SourceLine(ApiKeyPrefix, YourApiKeyHere, QuoteSuffix) \o <<"\n">>
            \o SourceLine(ConstPrefix, Stripe32, QuoteSuffix)}


\* The same key with other characters between its first and last four
Stripe32Other ==
    [i \in 1..Len(Stripe32) |-> IF i \in 9..12 THEN "Z" ELSE Stripe32[i]]

\* Where a match was found: its column and the text around it
Site(column, context) == [column |-> column, context |-> context]
MatchSites ==
    {Site(1, <<>>), Site(18, ConstPrefix)}
MatchAtSite(type, value, line, site, severity) ==
    [ type |-> type, value |-> value, line |-> line, column |-> site.column,
      context |-> site.context \o value, severity |-> severity ]

\* The arguments of showSecurityAdvice: a match and the uri of its file
AdviceRequests ==
    { [secretMatch |-> MatchAtSite(type, value, line, site, severity), uri |-> uri] :
        type \in {StripeApiKey, AwsSecretKey},
        value \in {Stripe32, Stripe32Other, Random20, Value6},
        line \in {1, 2}, site \in MatchSites, severity \in {"high", "low"},
        uri \in {FileA, FileB} }

\* The strings handed to redactSecret: for every length up to MaxSecretLen a
\* string of distinct neighbours and a string of asterisks and letters
MaxSecretLen == 32
SecretAlphabet ==
    <<"0","1","2","3","4","5","6","7","8","9","a","b","c","d","e","f","g","h","i",
      "j","k","l","m","n","o","p","q","r","s","t","u","v","w","x","y","z">>
Counting(n) == [i \in 1..n |-> SecretAlphabet[((i - 1) % Len(SecretAlphabet)) + 1]]
Starred(n) == [i \in 1..n |-> IF i % 2 = 0 THEN "*" ELSE "x"]
RedactInputs ==
    {Counting(n) : n \in 0..MaxSecretLen} \cup {Starred(n) : n \in 0..MaxSecretLen}

\* The matches handed to getSecurityAdvice without a credential: every name
\* of the registry and two names that contain two of the tested substrings
TokenApiKey == <<"T","o","k","e","n"," ","A","P","I"," ","K","e","y">>
PrivateKeyToken == <<"P","r","i","v","a","t","e"," ","K","e","y"," ","T","o","k","e","n">>
MatchTypes ==
    {SECRET_PATTERNS[k].name : k \in 1..Len(SECRET_PATTERNS)} \cup {TokenApiKey, PrivateKeyToken}
FallbackMatches ==
    { MatchAtSite(type, found.value, found.line, found.site, severity) :
        type \in MatchTypes, severity \in Severities,
        found \in { [value |-> Stripe32, line |-> 1, site |-> Site(18, ConstPrefix)],
                    [value |-> Random20, line |-> 2, site |-> Site(1, <<>>)] } }

\* The response texts of the remote call: up to MaxResponseLines lines, each
\* plain, bulleted with "-", "*" or the bullet character U+2022, blank, empty
\* or in braces, and one text of nine lines
MaxResponseLines == 3
ResponseLines ==
    { <<"a">>, <<"-", " ", "b">>, <<"*", "c">>, <<"U+2022", " ", "d">>, <<" ">>, <<>>,
      <<"{", "w", "}">>, <<"{", "t:T", "}">> }
RECURSIVE JoinLines(_)
JoinLines(lines) ==
    IF Len(lines) = 0 THEN <<>>
    ELSE IF Len(lines) = 1 THEN lines[1]
    ELSE lines[1] \o <<"\n">> \o JoinLines(Tail(lines))
NineLines ==
    << <<"a">>, <<"-", " ", "b">>, <<>>, <<"*", "c">>, <<" ">>, <<"a">>,
       <<"-", " ", "b">>, <<"*", "c">>, <<"a">> >>
RemoteResponses ==
    ({JoinLines(lines) : lines \in SeqsUpTo(ResponseLines, MaxResponseLines)}
        \cup {JoinLines(NineLines)}) \ {<<>>}

\* The values handed to isDummyValue: a stem, then a suffix
ValueStems ==
    { <<>>,
      <<"a","p","i","_","k","e","y">>,
      <<"y","o","u","r","_","k","e","y">>,
      <<"k","e","y">>,
      <<"t","o","k","e","n">>,
      <<"s","e","c","r","e","t">>,
      <<"m","y","_","p","a","s","s","w","o","r","d">>,
      <<"Y","O","U","R","_","A","P","I","_","K","E","Y">>,
      <<"i","n","s","e","r","t","-","t","o","k","e","n">>,
      <<"x">>,
      <<"1","2","3","4","5">>,
      <<"s","k","_","l","i","v","e","_","a","b","c">> }
HereSuffix == <<"_","h","e","r","e">>
ValueSuffixes ==
    { <<>>, HereSuffix, <<"_","H","E","R","E">>, <<"_","h","e","r","e"," ">>,
      <<"h","e","r","e">>, <<"_","t","h","e","r","e">> }
DummyCandidates == {stem \o suffix : stem \in ValueStems, suffix \in ValueSuffixes}

--------------------------------------------------------------------------
(* Calls of the pure functions: the process                                *)

\* One call: the function called and its argument
Call(fn, arg) == [fn |-> fn, arg |-> arg]

Calling(fn) == pureCall # <<>> /\ pureCall[1].fn = fn /\ result = <<>>
CallReturned(fn) == pureCall # <<>> /\ pureCall[1].fn = fn /\ result # <<>>

\* scanForSecrets(text, uri) on one of ScanTexts
CallScanForSecrets ==
    /\ Calling("scanForSecrets")
    /\ result' = <<scanForSecrets(pureCall[1].arg)>>
    /\ UNCHANGED <<pureCall, adviceVars, schedVars, panelVars>>

\* The payload getSecurityAdvice hands to https.request, for each of two
\* advice requests (geminiService.ts lines 102-128 and 29-35)
CallBuildPayload ==
    /\ Calling("payload")
    /\ result' = <<[n \in 1..2 |->
                      RequestPayload(BuildPrompt(pureCall[1].arg[n].secretMatch))]>>
    /\ UNCHANGED <<pureCall, adviceVars, schedVars, panelVars>>

\* redactSecret(secret) on one of RedactInputs
CallRedactSecret ==
    /\ Calling("redactSecret")
    /\ result' = <<redactSecret(pureCall[1].arg)>>
    /\ UNCHANGED <<pureCall, adviceVars, schedVars, panelVars>>

\* getSecurityAdvice(secretMatch, apiKey) with an absent credential, for each
\* of two matches: return getDefaultAdvice(secretMatch) (lines 98-100)
CallFallbackAdvice ==
    /\ Calling("getSecurityAdvice")
    /\ IF IsBlankKey(pureCall[1].arg.apiKey)
       THEN result' = <<[n \in 1..2 |-> getDefaultAdvice(pureCall[1].arg.secretMatch[n])]>>
       ELSE FALSE
    /\ UNCHANGED <<pureCall, adviceVars, schedVars, panelVars>>

\* getSecurityAdvice after makeGeminiRequest resolved with a response text
\* (geminiService.ts lines 130-151)
CallAdviceFromResponse ==
    /\ Calling("adviceFromResponse")
    /\ result' = <<AdviceFromResponse(pureCall[1].arg.response, pureCall[1].arg.secretMatch)>>
    /\ UNCHANGED <<pureCall, adviceVars, schedVars, panelVars>>

\* isDummyValue(value) on one of DummyCandidates
CallIsDummyValue ==
    /\ Calling("isDummyValue")
    /\ result' = <<isDummyValue(pureCall[1].arg)>>
    /\ UNCHANGED <<pureCall, adviceVars, schedVars, panelVars>>

CallsInit ==
    /\ AdviceInit
    /\ SchedulerInit
    /\ NoPanel
    /\ result = <<>>
    /\ \/ \E text \in ScanTexts : pureCall = <<Call("scanForSecrets", text)>>
       \/ \E a, b \in AdviceRequests : pureCall = <<Call("payload", <<a, b>>)>>
       \/ \E secret \in RedactInputs : pureCall = <<Call("redactSecret", secret)>>
       \/ \E response \in RemoteResponses, m \in SampleMatches :
              pureCall = <<Call("adviceFromResponse", [response |-> response, secretMatch |-> m])>>
       \/ \E value \in DummyCandidates : pureCall = <<Call("isDummyValue", value)>>
       \/ \E a, b \in FallbackMatches :
              pureCall = <<Call("getSecurityAdvice", [secretMatch |-> <<a, b>>, apiKey |-> <<>>])>>

CallsNext ==
    \/ CallScanForSecrets
    \/ CallBuildPayload
    \/ CallRedactSecret
    \/ CallFallbackAdvice
    \/ CallAdviceFromResponse
    \/ CallIsDummyValue

SpecCalls == CallsInit /\ [][CallsNext]_vars

--------------------------------------------------------------------------
(* Scanner: claims                                                         *)

ScanReturned == CallReturned("scanForSecrets")
ScanResult == result[1]

\* C12: one text yields no two matches that report the same value on the
\* same line under two different pattern names: where two patterns match
\* the same substring, only the first registered one emits a match.
C12_SameSubstringReportedUnderOneName ==
    ScanReturned =>
        \A i, j \in 1..Len(ScanResult) :
            (ScanResult[i].line = ScanResult[j].line
             /\ ScanResult[i].value = ScanResult[j].value)
            => ScanResult[i].type = ScanResult[j].type


\* The occurrences the Dummy Filter flags in a text: for each line and each
\* pattern, the hits of the pattern whose candidate value is a dummy value
FlaggedOccurrences(text) ==
    With(SplitLines(text), LAMBDA lines :
        UNION { UNION { { [type |-> SECRET_PATTERNS[k].name, line |-> n,
                           column |-> h.index + 1] :
                          h \in { x \in { found[q] : q \in 1..Len(found) } :
                                    isDummyValue(IF x.group # <<>> THEN x.group
                                                                   ELSE x.whole) } } :
                        found \in {ExecAll(SECRET_PATTERNS[k].pattern, lines[n], 1, TRUE)} } :
                n \in 1..Len(lines), k \in 1..Len(SECRET_PATTERNS) })

ApiKeyPlaceholderLine == SourceLine(ApiKeyPrefix, YourApiKeyHere, QuoteSuffix)

\* C14: an occurrence whose candidate value the Dummy Filter flags yields no
\* match: the scan returns, and its result holds no match of that pattern at
\* that line and column and no match with a dummy value at all; the line
\* apiKey = "YOUR_API_KEY_HERE" yields zero matches.
C14_FlaggedCandidatesEmitNoMatch ==
    ScanReturned =>
        /\ \A occ \in FlaggedOccurrences(pureCall[1].arg) :
               \A i \in 1..Len(ScanResult) :
                   ~ /\ ScanResult[i].type = occ.type
                     /\ ScanResult[i].line = occ.line
                     /\ ScanResult[i].column = occ.column
        /\ \A i \in 1..Len(ScanResult) : ~isDummyValue(ScanResult[i].value)
        /\ pureCall[1].arg = ApiKeyPlaceholderLine => ScanResult = <<>>

\* A scan of token=test_0123456789abcdefghij: the Generic Token pattern hits,
\* the candidate is flagged, and the scan returns no match
C14_Witness ==
    /\ ScanReturned
    /\ pureCall[1].arg = SourceLine(TokenPrefix, TestValue25, NoSuffix)
    /\ FlaggedOccurrences(pureCall[1].arg) # {}
    /\ ScanResult = <<>>

\* The test line of the setup guide: const API_KEY = "sk_live_1234567890abcdef";
SetupGuideLine == SourceLine(ConstPrefix, Value24, QuoteSuffix)

\* C15: scanning the line const API_KEY = "sk_live_1234567890abcdef"; yields
\* exactly one match, named "Stripe API Key", of severity high, whose column
\* is the 1-based offset of sk_live_ in the line.
C15_SetupGuideLineYieldsOneStripeMatch ==
    (ScanReturned /\ pureCall[1].arg = SetupGuideLine) =>
        /\ Len(ScanResult) = 1
        /\ ScanResult[1].type = StripeApiKey
        /\ ScanResult[1].severity = "high"
        /\ ScanResult[1].column = Len(ConstPrefix) + 1

\* The number of line feeds before position p of a text
LineFeedsBefore(text, p) == Cardinality({q \in 1..(p - 1) : text[q] = "\n"})

\* The line of a text that starts at position start, without its line feed
LineFrom(text, start) ==
    LET feeds == {q \in start..Len(text) : text[q] = "\n"}
        last == IF feeds = {} THEN Len(text)
                ELSE (CHOOSE q \in feeds : \A r \in feeds : q <= r) - 1
    IN  SubSeq(text, start, last)

PatternNamed(type) ==
    SECRET_PATTERNS[CHOOSE k \in 1..Len(SECRET_PATTERNS) : SECRET_PATTERNS[k].name = type].pattern

\* The pattern named type has an occurrence that starts at the 1-based
\* offset column of line and carries value
OccurrenceAt(type, line, column, value) ==
    /\ column <= Len(line)
    /\ \E xs \in {MatchAt(PatternNamed(type), line, column, TRUE)} :
          /\ xs # <<>>
          /\ value = IF xs[1].cs > 0 THEN SubSeq(line, xs[1].cs, xs[1].ce - 1)
                                     ELSE SubSeq(line, column, xs[1].e - 1)

\* C21: every match a scan emits has line >= 1 and column >= 1; line is the
\* 1-based index of the line-feed-separated line that holds the occurrence,
\* and column is the 1-based offset in that line at which the occurrence of
\* the match's pattern starts.
C21_LineAndColumnLocateTheOccurrence ==
    ScanReturned =>
        \A i \in 1..Len(ScanResult) :
            /\ ScanResult[i].line >= 1
            /\ ScanResult[i].column >= 1
            /\ \E start \in 1..(Len(pureCall[1].arg) + 1) :
                  /\ start = 1 \/ pureCall[1].arg[start - 1] = "\n"
                  /\ LineFeedsBefore(pureCall[1].arg, start) = ScanResult[i].line - 1
                  /\ OccurrenceAt(ScanResult[i].type, LineFrom(pureCall[1].arg, start),
                                  ScanResult[i].column, ScanResult[i].value)

\* A match on the second line of a text, its occurrence not at the line start
C21_Witness ==
    /\ ScanReturned
    /\ \E i \in 1..Len(ScanResult) :
          /\ ScanResult[i].line = 2
          /\ ScanResult[i].column > 1
          /\ ScanResult[i].type = StripeApiKey

--------------------------------------------------------------------------
(* Advisory request payload: claims                                        *)

PayloadReturned == CallReturned("payload")
PayloadArg(n) == pureCall[1].arg[n]
PayloadOf(n) == result[1][n]
PromptOf(n) == PayloadOf(n).contents[1].parts[1].text

\* Two matches with the same type, redaction, severity and line
SameRedactedView(m1, m2) ==
    /\ m1.type = m2.type
    /\ redactSecret(m1.value) = redactSecret(m2.value)
    /\ m1.severity = m2.severity
    /\ m1.line = m2.line

\* The texts interpolated into the prompt
PromptTexts(prompt) == {prompt[f] : f \in (DOMAIN prompt) \ {"severity", "line"}}

\* C13: the payload of an advisory request is a function of the match's type,
\* redact(value), severity and line only: two requests that agree on these
\* four get the same payload, whatever their raw values, contexts, columns
\* and files; and neither the raw value nor the surrounding source text
\* occurs in any text of the payload.
C13_PayloadHoldsOnlyRedactedView ==
    PayloadReturned =>
        /\ SameRedactedView(PayloadArg(1).secretMatch, PayloadArg(2).secretMatch)
               => PayloadOf(1) = PayloadOf(2)
        /\ \A n \in 1..2 : \A t \in PromptTexts(PromptOf(n)) :
               /\ ~Includes(t, PayloadArg(n).secretMatch.value)
               /\ ~Includes(t, PayloadArg(n).secretMatch.context)

C13_Witness ==
    /\ PayloadReturned
    /\ SameRedactedView(PayloadArg(1).secretMatch, PayloadArg(2).secretMatch)
    /\ PayloadArg(1).secretMatch.value # PayloadArg(2).secretMatch.value
    /\ PayloadArg(1).secretMatch.context # PayloadArg(2).secretMatch.context
    /\ PayloadArg(1).secretMatch.column # PayloadArg(2).secretMatch.column
    /\ PayloadArg(1).uri # PayloadArg(2).uri
    /\ Len(PayloadArg(1).secretMatch.value) > RedactShortMax
    /\ PayloadOf(1) = PayloadOf(2)


--------------------------------------------------------------------------
(* Redactor: claims                                                        *)

RedactReturned == CallReturned("redactSecret")
RedactArg == pureCall[1].arg
Redacted == result[1]
Asterisks(n) == [i \in 1..n |-> "*"]

\* C16: for a string s of at most 8 characters, the empty string included,
\* redact(s) is length(s) asterisks.
C16_ShortSecretsFullyMasked ==
    (RedactReturned /\ Len(RedactArg) <= 8) => Redacted = Asterisks(Len(RedactArg))

C16_Witness ==
    /\ RedactReturned
    /\ Len(RedactArg) = 8
    /\ \A i \in 1..8 : RedactArg[i] # "*"
    /\ Redacted = Asterisks(8)

--------------------------------------------------------------------------
(* Fallback Advice: claims                                                 *)

FallbackReturned == CallReturned("getSecurityAdvice")
FallbackMatch(n) == pureCall[1].arg.secretMatch[n]
FallbackOf(n) == result[1][n]

\* C18: the Fallback Advice of a match has the title "Security Alert: {type}
\* Detected" with the match's type, exactly five recommendations, and urgency
\* critical when the severity is high and high for every other severity; two
\* matches with the same type and severity get the same Fallback Advice.
C18_FallbackDependsOnTypeAndSeverity ==
    FallbackReturned =>
        /\ \A n \in 1..2 :
               /\ FallbackOf(n).title.t = "Security Alert: {type} Detected"
               /\ FallbackOf(n).title.a = FallbackMatch(n).type
               /\ Len(FallbackOf(n).recommendations) = 5
               /\ FallbackOf(n).urgency
                      = IF FallbackMatch(n).severity = "high" THEN "critical" ELSE "high"
        /\ (FallbackMatch(1).type = FallbackMatch(2).type
             /\ FallbackMatch(1).severity = FallbackMatch(2).severity)
            => FallbackOf(1) = FallbackOf(2)

C18_Witness ==
    /\ FallbackReturned
    /\ FallbackMatch(1).type = FallbackMatch(2).type
    /\ FallbackMatch(1).severity = "medium"
    /\ FallbackMatch(2).severity = "medium"
    /\ FallbackMatch(1).line # FallbackMatch(2).line
    /\ FallbackMatch(1).column # FallbackMatch(2).column
    /\ FallbackOf(1).urgency = "high"
    /\ FallbackOf(1) = FallbackOf(2)

ContainsApiKey(type) == Includes(type, <<"A","P","I"," ","K","e","y">>)
ContainsToken(type) == Includes(type, <<"T","o","k","e","n">>)
ContainsPrivateKey(type) == Includes(type, <<"P","r","i","v","a","t","e"," ","K","e","y">>)

\* C19: in the Fallback Advice revocationSteps is the API Key list if the type
\* contains "API Key", otherwise the Token list if it contains "Token",
\* otherwise the Private Key list if it contains "Private Key", and is absent
\* otherwise; for type "AWS Secret Key", severity high and no credential the
\* advice has urgency critical, five recommendations and no revocation steps.
C19_RevocationStepsChosenBySubstring ==
    FallbackReturned =>
        \A n \in 1..2 :
            /\ FallbackOf(n).revocationSteps
                  = IF ContainsApiKey(FallbackMatch(n).type) THEN <<ApiKeySteps>>
                    ELSE IF ContainsToken(FallbackMatch(n).type) THEN <<TokenSteps>>
                    ELSE IF ContainsPrivateKey(FallbackMatch(n).type) THEN <<PrivateKeySteps>>
                    ELSE <<>>
            /\ (FallbackMatch(n).type = AwsSecretKey /\ FallbackMatch(n).severity = "high"
                 /\ pureCall[1].arg.apiKey = <<>>)
                => /\ FallbackOf(n).urgency = "critical"
                   /\ Len(FallbackOf(n).recommendations) = 5
                   /\ FallbackOf(n).revocationSteps = <<>>

\* The AWS Secret Key scenario next to a type that holds both "Token" and
\* "API Key"
C19_Witness ==
    /\ FallbackReturned
    /\ FallbackMatch(1).type = AwsSecretKey
    /\ FallbackMatch(1).severity = "high"
    /\ FallbackOf(1).revocationSteps = <<>>
    /\ FallbackMatch(2).type = TokenApiKey
    /\ FallbackOf(2).revocationSteps = <<ApiKeySteps>>


--------------------------------------------------------------------------
(* Advice panel (extension.ts showAdvice command, webviewPanel.ts, App.tsx) *)

MaxAdviceRequests == 2

\* The arguments of the keyleaks.showAdvice command: both may be missing
CommandArguments ==
    { [secretMatch |-> m, uri |-> u] :
        m \in {<<>>, <<MatchAtSite(StripeApiKey, Stripe32, 1, Site(18, ConstPrefix), "high")>>,
                     <<MatchAtSite(AwsSecretKey, Random20, 2, Site(1, <<>>), "medium")>>},
        u \in {<<>>, <<FileA>>, <<FileB>>} }

\* AdvicePanelData, with the request it answers
PanelData(id, m, uri, securityAdvice) ==
    [request |-> id, secretMatch |-> m, uri |-> uri, advice |-> securityAdvice]

\* keyleaks.showAdvice (ARCHITECTURE.md lines 370-379) up to the await of
\* getSecurityAdvice in showSecurityAdvice (lines 596-607)
ShowAdviceCommand ==
    /\ adviceRequested < MaxAdviceRequests
    /\ \E args \in CommandArguments :
          IF args.secretMatch = <<>> \/ args.uri = <<>>
          THEN /\ panelWarning' = TRUE
               /\ UNCHANGED <<adviceCalls, adviceRequested, overlapping>>
          ELSE /\ adviceRequested' = adviceRequested + 1
               /\ overlapping' =
                      LET others == {c \in adviceCalls :
                                        c.secretMatch # args.secretMatch[1]}
                      IN  IF others = {} THEN overlapping
                          ELSE overlapping \cup {c.id : c \in others}
                                           \cup {adviceRequested + 1}
               /\ adviceCalls' = adviceCalls \cup
                      {[id |-> adviceRequested + 1, secretMatch |-> args.secretMatch[1],
                        uri |-> args.uri[1]]}
               /\ UNCHANGED panelWarning
    /\ UNCHANGED <<currentPanel, webviewMessages, appData, completed, received>>
    /\ UNCHANGED <<adviceVars, schedVars, callVars>>

\* createAdvicePanel(context, data) (webviewPanel.ts lines 35-107)
createAdvicePanel(data) ==
    IF currentPanel # <<>>
    THEN /\ webviewMessages' = Append(webviewMessages, data)
         /\ UNCHANGED currentPanel
    ELSE /\ currentPanel' = <<[initialData |-> data, loaded |-> FALSE]>>
         /\ webviewMessages' = Append(webviewMessages, data)

\* getSecurityAdvice returns to showSecurityAdvice (lines 607-616)
AdviceReturns ==
    /\ \E c \in adviceCalls :
          /\ adviceCalls' = adviceCalls \ {c}
          /\ completed' = completed \cup {c.id}
          /\ createAdvicePanel(PanelData(c.id, c.secretMatch, c.uri,
                                         getDefaultAdvice(c.secretMatch)))
    /\ UNCHANGED <<appData, panelWarning, adviceRequested, received, overlapping>>
    /\ UNCHANGED <<adviceVars, schedVars, callVars>>

\* The webview runs its script: App's constructor takes window.initialData
\* and registers the message listener (App.tsx lines 31-44)
WebviewLoads ==
    /\ currentPanel # <<>>
    /\ ~currentPanel[1].loaded
    /\ currentPanel' = <<[currentPanel[1] EXCEPT !.loaded = TRUE]>>
    /\ appData' = <<currentPanel[1].initialData>>
    /\ received' = Append(received, currentPanel[1].initialData)
    /\ UNCHANGED <<adviceCalls, webviewMessages, panelWarning, adviceRequested, completed,
                   overlapping>>
    /\ UNCHANGED <<adviceVars, schedVars, callVars>>

\* A posted message is dispatched in the webview: the listener of App takes
\* it (App.tsx lines 38-43); before the listener exists nobody does
MessageDispatched ==
    /\ currentPanel # <<>>
    /\ webviewMessages # <<>>
    /\ webviewMessages' = Tail(webviewMessages)
    /\ IF currentPanel[1].loaded
       THEN /\ appData' = <<Head(webviewMessages)>>
            /\ received' = Append(received, Head(webviewMessages))
       ELSE UNCHANGED <<appData, received>>
    /\ UNCHANGED <<adviceCalls, currentPanel, panelWarning, adviceRequested, completed,
                   overlapping>>
    /\ UNCHANGED <<adviceVars, schedVars, callVars>>

\* The user closes the panel: onDidDispose (webviewPanel.ts lines 96-103)
PanelDisposed ==
    /\ currentPanel # <<>>
    /\ currentPanel' = <<>>
    /\ webviewMessages' = <<>>
    /\ appData' = <<>>
    /\ UNCHANGED <<adviceCalls, panelWarning, adviceRequested, completed, received,
                   overlapping>>
    /\ UNCHANGED <<adviceVars, schedVars, callVars>>

PanelNext ==
    \/ ShowAdviceCommand
    \/ AdviceReturns
    \/ WebviewLoads
    \/ MessageDispatched
    \/ PanelDisposed

SpecPanel == Init /\ [][PanelNext]_vars

--------------------------------------------------------------------------
(* Advice panel: claims                                                    *)

\* How often App has taken in the data of a request
Deliveries(id) == Cardinality({n \in 1..Len(received) : received[n].request = id})

\* C20: the advice of a completed user request, with its match and uri, is
\* taken in by the panel's App no more than once, whether the request created
\* the panel or found one.
C20_AdviceDeliveredOncePerRequest ==
    \A id \in completed : Deliveries(id) <= 1

\* Every request has completed and the panel has taken in all it was sent
PanelSettled ==
    /\ adviceCalls = {}
    /\ completed = 1..adviceRequested
    /\ currentPanel # <<>>
    /\ currentPanel[1].loaded
    /\ webviewMessages = <<>>

\* C30: when the request issued last was in flight together with a request
\* for another match, then once all have completed and the panel has taken
\* in its messages the panel shows the advice and the match of the request
\* issued last, whichever getSecurityAdvice call returned first.
C30_PanelShowsLastIssuedRequest ==
    (PanelSettled /\ adviceRequested \in overlapping)
    => (appData # <<>> /\ appData[1].request = adviceRequested)


--------------------------------------------------------------------------
(* Unstructured Extraction: claims                                         *)

ExtractionReturned == CallReturned("adviceFromResponse")
ExtractionResponse == pureCall[1].arg.response
NoStructuredObject(response) ==
    JsonMatch(response) = <<>> \/ ~JsonParse(JsonMatch(response)[1]).ok

\* The lines of a text that hold a character other than white space
NonEmptyLines(text) ==
    SelectSeq(SplitLines(text), LAMBDA l : \E n \in 1..Len(l) : ~IsWhitespace(l[n]))

\* A line without its leading bullet marker "-", "*" or U+2022 and the white
\* space after the marker
BulletMarkers == {"-", "*", "U+2022"}
WithoutBullet(l) ==
    IF l # <<>> /\ l[1] \in BulletMarkers
    THEN LET rest == {n \in 2..Len(l) : ~IsWhitespace(l[n])}
         IN  IF rest = {} THEN <<>>
             ELSE SubSeq(l, CHOOSE n \in rest : \A k \in rest : n <= k, Len(l))
    ELSE l

\* C23: when the response text holds no well-formed structured object, the
\* recommendations are its first five (or fewer) non-empty lines in their
\* order, each without its leading bullet marker, and the urgency is high for
\* a match of severity high and medium otherwise.  A line of white space only
\* counts as empty.
C23_UnstructuredExtractionTakesFirstFiveLines ==
    (ExtractionReturned /\ NoStructuredObject(ExtractionResponse)) =>
        LET lines == NonEmptyLines(ExtractionResponse)
            n == IF Len(lines) < 5 THEN Len(lines) ELSE 5
        IN  /\ Len(result[1].recommendations) = n
            /\ \A i \in 1..n : result[1].recommendations[i].a = WithoutBullet(lines[i])
            /\ result[1].urgency
                  = IF pureCall[1].arg.secretMatch.severity = "high" THEN "high" ELSE "medium"


--------------------------------------------------------------------------
(* Dummy Filter: claims                                                    *)

DummyReturned == CallReturned("isDummyValue")
EndsWith(s, suffix) ==
    Len(s) >= Len(suffix) /\ SubSeq(s, Len(s) - Len(suffix) + 1, Len(s)) = suffix

\* C25 (as stated): isDummyValue returns true for every value that ends with
\* the placeholder suffix _here, whatever precedes the suffix.
C25_HereSuffixIsDummy ==
    (DummyReturned /\ EndsWith(pureCall[1].arg, HereSuffix)) => result[1] = TRUE

\* The four literals of the pattern that holds the suffix
HereLiterals ==
    { <<"a","p","i","_","k","e","y">> \o HereSuffix,
      <<"y","o","u","r","_","k","e","y">> \o HereSuffix,
      <<"k","e","y">> \o HereSuffix,
      <<"t","o","k","e","n">> \o HereSuffix }

\* Stems that no pattern of DUMMY_PATTERNS knows
PlainStems ==
    { <<"s","e","c","r","e","t">>, <<"m","y","_","p","a","s","s","w","o","r","d">>,
      <<"i","n","s","e","r","t","-","t","o","k","e","n">>, <<"x">>,
      <<"1","2","3","4","5">>, <<"s","k","_","l","i","v","e","_","a","b","c">> }

\* C25 (amended): isDummyValue returns true for the four literals
\* api_key_here, your_key_here, key_here and token_here, in any letter case
\* and with white space around them; the suffix _here alone does not make a
\* value a dummy: behind a stem that no other pattern knows it returns false.
C25_HereLiteralsAreDummy ==
    DummyReturned =>
        /\ ToLowerCase(Trim(pureCall[1].arg)) \in HereLiterals => result[1] = TRUE
        /\ pureCall[1].arg \in {stem \o HereSuffix : stem \in PlainStems}
               => result[1] = FALSE

\* One of the four literals, not in lower case, has been found a dummy
C25_Witness ==
    /\ DummyReturned
    /\ ToLowerCase(Trim(pureCall[1].arg)) \in HereLiterals
    /\ pureCall[1].arg \notin HereLiterals
    /\ result[1] = TRUE

==========================================================================
